---- MODULE Spec2Model ----
(***************************************************************************)
(* Memory ingestion pipeline and vector-similarity retrieval engine of the *)
(* super-memory MCP server: the PostgreSQL/pgvector store, the embedding   *)
(* and summarization adapters, the two ingest entry points and the         *)
(* retrieval tool, as a state machine over the contents of the memories    *)
(* table, the schema of the database and the transaction state of the      *)
(* connection a long-lived tool keeps.                                     *)
(*                                                                         *)
(* Floating point similarity scores are kept exact: a score is the pair    *)
(* (dot product, product of the squared norms) and every comparison the    *)
(* SQL or the Python makes on it is decided by cross-multiplication.       *)
(* Thresholds are in tenths.  Embeddings have EMBEDDING_DIMENSION small    *)
(* integer components (the dimension is scaled down from 1536).            *)
(***************************************************************************)
EXTENDS Integers, Sequences, FiniteSets, TLC

VARIABLES
    memories,   \* the rows of table memories that are committed
    nextId,     \* number of UUIDs uuid_generate_v4() has handed out
    clock,      \* CURRENT_TIMESTAMP of the database server
    last,       \* the last call: its inputs, what it invoked, its result
    schema,     \* the extensions, tables and indexes of the database
    connection  \* the transaction state of the pipeline tool's connection

vars == <<memories, nextId, clock, last, schema, connection>>

-----------------------------------------------------------------------------
(* Bounds of the model *)

MaxInserts == 2

MaxLimit == 2

\* the number of times the clock of the database moves on
MaxClock == 1

(* Program constants (dimensions scaled down from 1536) *)

EMBEDDING_DIMENSION == 2

FALLBACK_DIMENSION == 2

-----------------------------------------------------------------------------
(* Vectors and pgvector's cosine distance *)

RECURSIVE Dot(_, _)
Dot(a, b) ==
    IF a = <<>> THEN 0 ELSE Head(a) * Head(b) + Dot(Tail(a), Tail(b))

NormSq(a) == Dot(a, a)

ZeroVector(n) == [i \in 1..n |-> 0]

\* 1 - (embedding <=> query): the score as (dot, |a|^2 |b|^2); 0/0 is NaN
Similarity(embedding, query) ==
    LET n == NormSq(embedding) * NormSq(query)
    IN  [nan |-> n = 0, dot |-> IF n = 0 THEN 0 ELSE Dot(embedding, query),
         nsq |-> IF n = 0 THEN 1 ELSE n]

\* s1 >= s2 for two scores that are numbers: dot1/sqrt(nsq1) >= dot2/sqrt(nsq2)
NumGE(s1, s2) ==
    CASE s1.dot >= 0 /\ s2.dot <= 0 -> TRUE
      [] s1.dot < 0 /\ s2.dot >= 0 -> FALSE
      [] s1.dot >= 0 /\ s2.dot > 0 ->
            s1.dot * s1.dot * s2.nsq >= s2.dot * s2.dot * s1.nsq
      [] OTHER -> s1.dot * s1.dot * s2.nsq <= s2.dot * s2.dot * s1.nsq

\* the score t/10 of a threshold given in tenths
Tenths(t) == [nan |-> FALSE, dot |-> t, nsq |-> 100]

\* PostgreSQL's float8 >= : NaN is greater than every number and equal to NaN
PgGE(s1, s2) == s1.nan \/ (~s2.nan /\ NumGE(s1, s2))

\* Python's float comparisons: every comparison with NaN is False
PyGE(s1, s2) == ~s1.nan /\ ~s2.nan /\ NumGE(s1, s2)

PyLT(s1, s2) == ~s1.nan /\ ~s2.nan /\ ~NumGE(s1, s2)

-----------------------------------------------------------------------------
(* PostgresStore *)

Row(id, heading, summary, embedding, created_at) ==
    [id |-> id, heading |-> heading, summary |-> summary,
     embedding |-> embedding, created_at |-> created_at]

\* mutant: the id is returned but the insert is never committed
store_memory_uncommitted(table, heading, summary, embedding, db, id, now) ==
    IF db = "ok" /\ Len(embedding) = EMBEDDING_DIMENSION
    THEN [raised |-> FALSE, memory_id |-> id, table |-> table]
    ELSE [raised |-> TRUE, memory_id |-> 0, table |-> table]

\* mutant: the column is VECTOR without a dimension
store_memory_any_dimension(table, heading, summary, embedding, db, id, now) ==
    IF db = "ok" /\ embedding # <<>>
    THEN [raised |-> FALSE, memory_id |-> id,
          table |-> table \cup {Row(id, heading, summary, embedding, now)}]
    ELSE [raised |-> TRUE, memory_id |-> 0, table |-> table]

\* mutant: the except branch raises without rolling back, and the inserted
\* row is committed with the next commit on the connection
store_memory_without_rollback(table, heading, summary, embedding, db, id, now) ==
    IF db \in {"ok", "commit_fails"} /\ Len(embedding) = EMBEDDING_DIMENSION
    THEN [raised |-> db # "ok", memory_id |-> IF db = "ok" THEN id ELSE 0,
          table |-> table \cup {Row(id, heading, summary, embedding, now)}]
    ELSE [raised |-> TRUE, memory_id |-> 0, table |-> table]

\* INSERT INTO memories ... RETURNING id; commit, or rollback and raise.
\* db is what the database does during the call ("ok", "down": the INSERT
\* fails, "commit_fails": the INSERT executes and the commit fails), id the
\* UUID the column default generates, now the CURRENT_TIMESTAMP of the
\* transaction.  The VECTOR(D) column rejects an embedding of another length.
store_memory(table, heading, summary, embedding, db, id, now) ==
    LET inserted == table \cup {Row(id, heading, summary, embedding, now)}
    IN  IF db \in {"ok", "commit_fails"} /\ Len(embedding) = EMBEDDING_DIMENSION
        THEN IF db = "ok"
             THEN [raised |-> FALSE, memory_id |-> id, table |-> inserted]
             ELSE [raised |-> TRUE, memory_id |-> 0, table |-> table]
        ELSE [raised |-> TRUE, memory_id |-> 0, table |-> table]

\* what a SELECT returns of a row: id, heading, summary, created_at
Memory(row) ==
    [id |-> row.id, heading |-> row.heading, summary |-> row.summary,
     created_at |-> row.created_at]

\* mutant: the statement has no WHERE clause
PassesThreshold_always(row, query, threshold) == TRUE

\* WHERE 1 - (embedding <=> query) >= threshold
PassesThreshold(row, query, threshold) ==
    PgGE(Similarity(row.embedding, query), Tenths(threshold))

\* The rows a scan of the table can visit: a sequential scan visits all of
\* them; a scan of idx_embedding (ivfflat, lists = 100, one list probed)
\* visits the rows of the probed list, and the index holds no zero vector.
Scans(table) ==
    {table} \cup SUBSET {row \in table : NormSq(row.embedding) # 0}

\* every ordering of the set S as a sequence
Orderings(S) ==
    {f \in [1..Cardinality(S) -> S] : \A i, j \in DOMAIN f : i # j => f[i] # f[j]}

\* mutant: the rows are ordered by descending distance
ByDistance_descending(f, query) ==
    \A i, j \in DOMAIN f :
        i < j => \/ Similarity(f[j].embedding, query).nan
                 \/ /\ ~Similarity(f[i].embedding, query).nan
                    /\ NumGE(Similarity(f[j].embedding, query),
                             Similarity(f[i].embedding, query))

\* ORDER BY embedding <=> query (ascending distance, NaN last)
ByDistance(f, query) ==
    \A i, j \in DOMAIN f :
        i < j => \/ Similarity(f[j].embedding, query).nan
                 \/ /\ ~Similarity(f[i].embedding, query).nan
                    /\ NumGE(Similarity(f[i].embedding, query),
                             Similarity(f[j].embedding, query))

\* mutant: the statement has no LIMIT
Limit_none(f, n) == f

\* LIMIT n
Limit(f, n) == SubSeq(f, 1, IF Len(f) < n THEN Len(f) ELSE n)

\* the (similarity, memory) tuples the method builds from the fetched rows
SimilarityTuples(f, query) ==
    [i \in DOMAIN f |->
        [similarity |-> Similarity(f[i].embedding, query), memory |-> Memory(f[i])]]

\* a read of the store that returns the list rows
Returned(rows) == [raised |-> FALSE, rows |-> rows]

\* a read of the store that raises to its caller
Raised == [raised |-> TRUE, rows |-> <<>>]

\* mutant: the failure of the statement is raised again instead of giving []
search_similar_reraising(table, visited, query, limit, threshold, db) ==
    IF db # "ok" \/ Len(query) # EMBEDDING_DIMENSION
    THEN {Raised}
    ELSE {Returned(SimilarityTuples(Limit(f, limit), query)) :
            f \in {g \in Orderings({row \in visited :
                                      PassesThreshold(row, query, threshold)}) :
                     ByDistance(g, query)}}

\* What search_similar can do when the scan visits `visited`.  A failing
\* statement (database down, a query vector of another dimension than the
\* column) is caught and gives [].
search_similar(table, visited, query, limit, threshold, db) ==
    IF db # "ok" \/ Len(query) # EMBEDDING_DIMENSION
    THEN {Returned(<<>>)}
    ELSE {Returned(SimilarityTuples(Limit(f, limit), query)) :
            f \in {g \in Orderings({row \in visited :
                                      PassesThreshold(row, query, threshold)}) :
                     ByDistance(g, query)}}

\* ORDER BY created_at DESC
ByCreatedAtDesc(f) ==
    \A i, j \in DOMAIN f : i < j => f[i].created_at >= f[j].created_at

\* What fetch_recent_memories can do; a failing statement gives [].
fetch_recent_memories(table, limit, db) ==
    IF db # "ok"
    THEN {Returned(<<>>)}
    ELSE {Returned([i \in DOMAIN Limit(f, limit) |-> Memory(f[i])]) :
            f \in {g \in Orderings(table) : ByCreatedAtDesc(g)}}

\* mutant: the DELETE statement has no WHERE clause
delete_memory_all(table, memory_id, db) ==
    IF db = "ok"
    THEN [deleted |-> table # {}, table |-> {}]
    ELSE [deleted |-> FALSE, table |-> table]

\* DELETE FROM memories WHERE id = ...; rowcount > 0; commit, or rollback
\* and return False ("down": the DELETE fails, "commit_fails": the commit)
delete_memory(table, memory_id, db) ==
    IF db = "ok"
    THEN [deleted |-> \E row \in table : row.id = memory_id,
          table |-> {row \in table : row.id # memory_id}]
    ELSE [deleted |-> FALSE, table |-> table]

\* what a lookup by id returns when no row is returned
NoMemory == [id |-> 0, heading |-> "", summary |-> "", created_at |-> 0]

\* SELECT id, heading, summary, created_at FROM memories WHERE id = ...:
\* the dictionary of the row (embedding is not selected), or None when there
\* is no such row or the statement fails
get_memory_by_id(table, memory_id, db) ==
    IF db = "ok" /\ \E row \in table : row.id = memory_id
    THEN [found |-> TRUE, keys |-> {"id", "heading", "summary", "created_at"},
          memory |-> Memory(CHOOSE row \in table : row.id = memory_id)]
    ELSE [found |-> FALSE, keys |-> {}, memory |-> NoMemory]

\* SELECT COUNT(*) FROM memories (and the per-day counts); {"error": ...}
\* when a statement fails
get_stats(table, db) ==
    IF db = "ok"
    THEN [keys |-> {"total_memories", "recent_activity", "database_url"},
          total_memories |-> Cardinality(table)]
    ELSE [keys |-> {"error"}, total_memories |-> 0]

\* StoreMemoryTool.get_storage_stats: the statistics of its store
StoreMemoryTool_get_storage_stats(table, db) == get_stats(table, db)

\* the objects _initialize_db creates, in the order of its statements
SchemaObjects ==
    <<"vector", "uuid-ossp", "memories", "idx_embedding", "idx_created_at">>

\* mutant: CREATE without IF NOT EXISTS fails on an object that exists
CreateIfNotExists_plain(st, object) ==
    IF st.raised \/ object \in st.schema
    THEN [st EXCEPT !.raised = TRUE]
    ELSE [st EXCEPT !.schema = @ \cup {object}]

\* CREATE ... IF NOT EXISTS object: nothing happens when the object exists
CreateIfNotExists(st, object) ==
    IF st.raised \/ object \in st.schema
    THEN st
    ELSE [st EXCEPT !.schema = @ \cup {object}]

\* PostgresStore.__init__: _connect and _initialize_db.  The statements run
\* in one transaction: commit, or rollback and raise (as _connect does when
\* the database is unreachable).
initialize_db(objects, db) ==
    LET RECURSIVE Run(_, _)
        Run(st, i) ==
            IF i > Len(SchemaObjects) THEN st
            ELSE Run(CreateIfNotExists(st, SchemaObjects[i]), i + 1)
        st == Run([raised |-> FALSE, schema |-> objects], 1)
    IN  IF db = "ok" /\ ~st.raised
        THEN st
        ELSE [raised |-> TRUE, schema |-> objects]

\* A connection of psycopg2 (autocommit off).  status is "idle" between
\* transactions, "open" when a statement has begun a transaction that was
\* neither committed nor rolled back, "aborted" when a statement failed in
\* it; started is the time the open transaction began.
IdleConnection == [status |-> "idle", started |-> 0]

\* the connection once a statement has run that is not followed by commit or
\* rollback (the reads of the store)
AfterRead(conn, db, now) ==
    IF db # "ok" THEN [status |-> "aborted", started |-> 0]
    ELSE IF conn.status = "idle" THEN [status |-> "open", started |-> now]
    ELSE conn

\* CURRENT_TIMESTAMP: the start of the transaction the statement runs in
TransactionTime(conn, now) ==
    IF conn.status = "open" THEN conn.started ELSE now

\* how a read on the connection can go: every statement fails in an aborted
\* transaction
StatementOutcomes(conn) ==
    IF conn.status = "aborted" THEN {"down"} ELSE {"ok", "down"}

\* how a write (statement and commit) on the connection can go
WriteOutcomes(conn) ==
    IF conn.status = "aborted" THEN {"down"} ELSE {"ok", "down", "commit_fails"}

-----------------------------------------------------------------------------
(* Summarization adapter: SummarizeChatTool *)

\* Lines a summarization response is made of.  TLC cannot look inside a
\* string, so the two string tests of the parser are tabulated per line.
HeadingLines == {"Heading: Pooling", "1. Heading: Pooling", "heading:"}

SummaryLines == {"Summary:", "2. Summary: Use a pool", "summary: Use a pool"}

\* line.lower().startswith('heading:') or ...startswith('1. heading:')
IsHeadingMarker(line) == line \in HeadingLines

\* line.lower().startswith('summary:') or ...startswith('2. summary:')
IsSummaryMarker(line) == line \in SummaryLines

\* mutant: the heading is the whole marker line
AfterColon_whole_line(line) == line

\* line.split(':', 1)[1].strip()
AfterColon(line) ==
    CASE line \in {"Heading: Pooling", "1. Heading: Pooling"} -> "Pooling"
      [] line \in {"2. Summary: Use a pool", "summary: Use a pool"} -> "Use a pool"
      [] OTHER -> ""

\* '\n'.join(lines)
RECURSIVE Join(_)
Join(lines) ==
    IF lines = <<>> THEN ""
    ELSE IF Len(lines) = 1 THEN Head(lines)
    ELSE Head(lines) \o "\n" \o Join(Tail(lines))

\* the for loop over the lines of the response
RECURSIVE ParseLines(_, _)
ParseLines(lines, st) ==
    IF lines = <<>> THEN st
    ELSE LET line == Head(lines)
             nxt  == CASE IsHeadingMarker(line) ->
                            [st EXCEPT !.heading = AfterColon(line),
                                       !.current_section = "heading"]
                       [] IsSummaryMarker(line) ->
                            [st EXCEPT !.current_section = "summary"]
                       [] st.current_section = "summary" /\ line # "" ->
                            [st EXCEPT !.summary_lines = Append(@, line)]
                       [] st.current_section = "heading" /\ line # ""
                              /\ st.heading = "" ->
                            [st EXCEPT !.heading = line]
                       [] OTHER -> st
         IN  ParseLines(Tail(lines), nxt)

\* mutant: a response without summary lines gives an empty summary
ParseResponse_without_raw_response(content) ==
    LET st == ParseLines(content,
                 [heading |-> "", current_section |-> "None", summary_lines |-> <<>>])
    IN  [heading |-> IF st.heading = "" THEN "Technical Discussion Summary"
                     ELSE st.heading,
         summary |-> Join(st.summary_lines)]

\* the heading and the summary parsed out of the response text
ParseResponse(content) ==
    LET st == ParseLines(content,
                 [heading |-> "", current_section |-> "None", summary_lines |-> <<>>])
        summary == IF st.summary_lines # <<>> THEN Join(st.summary_lines)
                   ELSE Join(content)
    IN  [heading |-> IF st.heading = "" THEN "Technical Discussion Summary"
                     ELSE st.heading,
         summary |-> IF summary = "" THEN Join(content) ELSE summary]

\* mutant: the fallback summary leaves out the failure reason
FallbackSummary_without_reason(chat_log, reason) ==
    [heading |-> "Developer Chat Summary",
     summary |-> "Chat log with " \o ToString(Len(chat_log)) \o " messages."]

\* the except branch of _generate_summary: the fallback pair
FallbackSummary(chat_log, reason) ==
    [heading |-> "Developer Chat Summary",
     summary |-> "Chat log with " \o ToString(Len(chat_log))
                   \o " messages. Failed to generate AI summary: " \o reason]

\* SummarizeChatTool._generate_summary.  llm is what the provider does:
\* kind "noclient" (ModelLoader.get_openai_client raises in settings.validate),
\* "error" (the completion call raises), "none" (the message has no content)
\* or "ok" with the content lines.  Only "noclient" raises to the caller.
SummarizeChatTool_generate_summary(chat_log, llm) ==
    CASE llm.kind = "noclient" ->
            [raised |-> TRUE, reason |-> "POSTGRES_PASSWORD environment variable is required",
             heading |-> "", summary |-> ""]
      [] llm.kind = "error" ->
            [raised |-> FALSE, reason |-> ""] @@ FallbackSummary(chat_log, "timeout")
      [] llm.kind = "none" ->
            [raised |-> FALSE, reason |-> ""]
              @@ FallbackSummary(chat_log, "'NoneType' object has no attribute 'strip'")
      [] OTHER ->
            [raised |-> FALSE, reason |-> ""] @@ ParseResponse(llm.content)

\* SummarizeChatTool.run
SummarizeChatTool_run(chat_log, llm) ==
    IF chat_log = <<>>
    THEN [success |-> FALSE, error |-> "chat_log is required and cannot be empty",
          heading |-> "", summary |-> "", called |-> FALSE]
    ELSE LET g == SummarizeChatTool_generate_summary(chat_log, llm)
         IN  IF g.raised
             THEN [success |-> FALSE, error |-> "Failed to summarize chat: " \o g.reason,
                   heading |-> "", summary |-> "", called |-> llm.kind # "noclient"]
             ELSE [success |-> TRUE, error |-> "None",
                   heading |-> g.heading, summary |-> g.summary, called |-> TRUE]

-----------------------------------------------------------------------------
(* Embedding provider adapter: EmbedTextTool *)

\* EmbedTextTool.run.  emb is what openai.embeddings.create does: kind "error"
\* (the call raises) or "ok" with the vector.  The normalize flag is not read.
EmbedTextTool_run(text, emb) ==
    IF text = ""
    THEN [success |-> FALSE, error |-> "text is required and cannot be empty",
          embedding |-> <<>>, dimension |-> 0, called |-> FALSE]
    ELSE IF emb.kind = "error"
    THEN [success |-> FALSE, error |-> "Failed to generate embedding: timeout",
          embedding |-> <<>>, dimension |-> 0, called |-> TRUE]
    ELSE [success |-> TRUE, error |-> "None",
          embedding |-> emb.vec, dimension |-> Len(emb.vec), called |-> TRUE]

-----------------------------------------------------------------------------
(* StoreMemoryTool *)

\* mutant: the required fields are passed to the store without a look
StoreMemoryTool_run_unvalidated(table, heading, summary, embedding, db, id, now) ==
    LET r == store_memory(table, heading, summary, embedding, db, id, now)
    IN  IF r.raised
        THEN [success |-> FALSE, error |-> "Failed to store memory: error",
              memory_id |-> 0, table |-> r.table, called |-> TRUE]
        ELSE [success |-> TRUE, error |-> "None", memory_id |-> r.memory_id,
              table |-> r.table, called |-> TRUE]

\* StoreMemoryTool.run on the tool's open store handle
StoreMemoryTool_run(table, heading, summary, embedding, db, id, now) ==
    CASE heading = "" ->
            [success |-> FALSE, error |-> "heading is required", memory_id |-> 0,
             table |-> table, called |-> FALSE]
      [] summary = "" ->
            [success |-> FALSE, error |-> "summary is required", memory_id |-> 0,
             table |-> table, called |-> FALSE]
      [] embedding = <<>> ->
            [success |-> FALSE, error |-> "embedding is required", memory_id |-> 0,
             table |-> table, called |-> FALSE]
      [] OTHER ->
            LET r == store_memory(table, heading, summary, embedding, db, id, now)
            IN  IF r.raised
                THEN [success |-> FALSE, error |-> "Failed to store memory: error",
                      memory_id |-> 0, table |-> r.table, called |-> TRUE]
                ELSE [success |-> TRUE, error |-> "None", memory_id |-> r.memory_id,
                      table |-> r.table, called |-> TRUE]

-----------------------------------------------------------------------------
(* Results of the tools: the returned dictionary, with the set of its keys *)

Step(completed, error) == [completed |-> completed, error |-> error]

\* mutant: the store step starts out as completed
InitialSteps_store_completed ==
    [summarize |-> Step(FALSE, "None"), embed |-> Step(FALSE, "None"),
     store |-> Step(TRUE, "None")]

\* pipeline_steps as initialised at the top of MemoryPipelineTool.run
InitialSteps ==
    [summarize |-> Step(FALSE, "None"), embed |-> Step(FALSE, "None"),
     store |-> Step(FALSE, "None")]

\* the value of every key a result does not have
NoResult ==
    [keys |-> {}, success |-> FALSE, error |-> "None", memory_id |-> 0,
     heading |-> "", summary |-> "", embedding_dimension |-> 0,
     pipeline_steps |-> InitialSteps, memories |-> <<>>, total_found |-> 0,
     search_type_used |-> ""]

\* {"success": False, "error": error}
Failure(error) ==
    [keys |-> {"success", "error"}, success |-> FALSE, error |-> error] @@ NoResult

-----------------------------------------------------------------------------
(* Memory ingestion pipeline: MemoryPipelineTool *)

\* mutant: the emptiness test of the entry points is left out
ChatLogMissing_unchecked(chat_log) == FALSE

\* not chat_log
ChatLogMissing(chat_log) == chat_log = <<>>

\* the failure results of MemoryPipelineTool.run carry the step map
PipelineFailure(error, steps) ==
    [keys |-> {"success", "error", "pipeline_steps"}, success |-> FALSE,
     error |-> error, pipeline_steps |-> steps] @@ NoResult

\* mutant: a store step that failed is invoked once more
PipelineStore_retrying(table, heading, summary, embedded, steps, io, db, id, now) ==
    LET st == StoreMemoryTool_run(table, heading, summary, embedded.embedding,
                                  db, id, now)
        io3 == IF st.called THEN Append(io, "db") ELSE io
    IN  IF ~st.success
        THEN [result |-> PipelineFailure("Storage failed: " \o st.error,
                            [steps EXCEPT !.store.error = st.error]),
              table |-> st.table,
              calls |-> <<"summarize", "embed", "store", "store">>,
              io |-> IF st.called THEN Append(io3, "db") ELSE io3]
        ELSE [result |->
                [keys |-> {"memory_id", "heading", "summary", "embedding_dimension",
                           "success", "pipeline_steps"},
                 success |-> TRUE, memory_id |-> st.memory_id, heading |-> heading,
                 summary |-> summary, embedding_dimension |-> embedded.dimension,
                 pipeline_steps |-> [steps EXCEPT !.store.completed = TRUE]]
                @@ NoResult,
              table |-> st.table, calls |-> <<"summarize", "embed", "store">>,
              io |-> io3]

\* Step 3 of MemoryPipelineTool.run and the success result
PipelineStore(table, heading, summary, embedded, steps, io, db, id, now) ==
    LET st == StoreMemoryTool_run(table, heading, summary, embedded.embedding,
                                  db, id, now)
        io3 == IF st.called THEN Append(io, "db") ELSE io
    IN  IF ~st.success
        THEN [result |-> PipelineFailure("Storage failed: " \o st.error,
                            [steps EXCEPT !.store.error = st.error]),
              table |-> st.table, calls |-> <<"summarize", "embed", "store">>,
              io |-> io3]
        ELSE [result |->
                [keys |-> {"memory_id", "heading", "summary", "embedding_dimension",
                           "success", "pipeline_steps"},
                 success |-> TRUE, memory_id |-> st.memory_id, heading |-> heading,
                 summary |-> summary, embedding_dimension |-> embedded.dimension,
                 pipeline_steps |-> [steps EXCEPT !.store.completed = TRUE]]
                @@ NoResult,
              table |-> st.table, calls |-> <<"summarize", "embed", "store">>,
              io |-> io3]

\* Step 2 of MemoryPipelineTool.run: embed heading and summary together
PipelineEmbed(table, heading, summary, steps, io, emb, db, id, now) ==
    LET text_to_embed == heading \o "\n\n" \o summary
        embedded == EmbedTextTool_run(text_to_embed, emb)
        io2 == IF embedded.called THEN Append(io, "embedding") ELSE io
        sent == IF embedded.called THEN <<text_to_embed>> ELSE <<>>
    IN  IF ~embedded.success
        THEN [result |-> PipelineFailure(
                            "Embedding generation failed: " \o embedded.error,
                            [steps EXCEPT !.embed.error = embedded.error]),
              table |-> table, calls |-> <<"summarize", "embed">>, io |-> io2,
              sent |-> sent]
        ELSE [sent |-> sent]
               @@ PipelineStore(table, heading, summary, embedded,
                                [steps EXCEPT !.embed.completed = TRUE], io2,
                                db, id, now)

\* MemoryPipelineTool.run on a constructed tool.  llm, emb and db are what
\* the summarization provider, the embedding provider and the database do
\* during the call; id and now are the UUID and timestamp an insert gets.
\* calls lists the steps invoked, io the remote and database calls made,
\* sent the texts given to the embedding provider.
MemoryPipelineTool_run(table, chat_log, llm, emb, db, id, now) ==
    IF ChatLogMissing(chat_log)
    THEN [result |-> PipelineFailure("chat_log is required and cannot be empty",
                                     InitialSteps),
          table |-> table, calls |-> <<>>, io |-> <<>>, sent |-> <<>>]
    ELSE LET summarized == SummarizeChatTool_run(chat_log, llm)
             io1 == IF summarized.called THEN <<"llm">> ELSE <<>>
         IN  IF ~summarized.success
             THEN [result |-> PipelineFailure(
                                 "Summarization failed: " \o summarized.error,
                                 [InitialSteps EXCEPT
                                     !.summarize.error = summarized.error]),
                   table |-> table, calls |-> <<"summarize">>, io |-> io1,
                   sent |-> <<>>]
             ELSE PipelineEmbed(table, summarized.heading, summarized.summary,
                                [InitialSteps EXCEPT !.summarize.completed = TRUE],
                                io1, emb, db, id, now)

-----------------------------------------------------------------------------
(* Second ingest entry point: SummarizeAndStoreTool *)

\* SummarizeAndStoreTool._generate_summary: as the adapter's, but a message
\* without content is read as the empty string
SummarizeAndStoreTool_generate_summary(chat_log, llm) ==
    CASE llm.kind = "noclient" ->
            [raised |-> TRUE, reason |-> "POSTGRES_PASSWORD environment variable is required",
             heading |-> "", summary |-> ""]
      [] llm.kind = "error" ->
            [raised |-> FALSE, reason |-> ""] @@ FallbackSummary(chat_log, "timeout")
      [] llm.kind = "none" ->
            [raised |-> FALSE, reason |-> ""] @@ ParseResponse(<<>>)
      [] OTHER ->
            [raised |-> FALSE, reason |-> ""] @@ ParseResponse(llm.content)

\* SummarizeAndStoreTool._generate_embedding: the provider's vector, or a
\* zero vector when the call raises
SummarizeAndStoreTool_generate_embedding(text, emb) ==
    IF emb.kind = "error" THEN ZeroVector(FALLBACK_DIMENSION) ELSE emb.vec

\* SummarizeAndStoreTool._store_memory: a new PostgresStore (connect and
\* _initialize_db), then store_memory; every failure is raised again
SummarizeAndStoreTool_store_memory(table, heading, summary, embedding, db, id, now) ==
    store_memory(table, heading, summary, embedding, db, id, now)

\* SummarizeAndStoreTool.run
SummarizeAndStoreTool_run(table, chat_log, llm, emb, db, id, now) ==
    IF ChatLogMissing(chat_log)
    THEN [result |-> Failure("chat_log is required and cannot be empty"),
          table |-> table, calls |-> <<>>, io |-> <<>>, sent |-> <<>>]
    ELSE LET g == SummarizeAndStoreTool_generate_summary(chat_log, llm)
         IN  IF g.raised
             THEN [result |-> Failure("Failed to summarize and store chat: " \o g.reason),
                   table |-> table, calls |-> <<"summarize">>, io |-> <<>>,
                   sent |-> <<>>]
             ELSE LET e  == SummarizeAndStoreTool_generate_embedding(g.summary, emb)
                      st == SummarizeAndStoreTool_store_memory(
                                table, g.heading, g.summary, e, db, id, now)
                  IN  [result |->
                         IF st.raised
                         THEN Failure("Failed to summarize and store chat: error")
                         ELSE [keys |-> {"heading", "summary", "memory_id", "success"},
                               success |-> TRUE, heading |-> g.heading,
                               summary |-> g.summary, memory_id |-> st.memory_id]
                              @@ NoResult,
                       table |-> st.table,
                       calls |-> <<"summarize", "embed", "store">>,
                       io |-> <<"llm", "embedding", "db">>,
                       sent |-> <<g.summary>>]

-----------------------------------------------------------------------------
(* Retrieval engine: FetchContextTool *)

\* the score 0.0 a recent search gives every memory
ZeroScore == Tenths(0)

\* a memory dictionary with its similarity_score
Scored(memory, score) ==
    [id |-> memory.id, heading |-> memory.heading, summary |-> memory.summary,
     created_at |-> memory.created_at, similarity_score |-> score]

\* the memory dictionaries of a list of (similarity, memory) tuples
ScoredTuples(rows) ==
    [i \in DOMAIN rows |-> Scored(rows[i].memory, rows[i].similarity)]

\* mutant: the embedding is read without looking at success (KeyError)
FetchContextTool_semantic_search_unchecked(embed_result, found) ==
    IF ~embed_result.success \/ found.raised
    THEN [raised |-> TRUE, memories |-> <<>>]
    ELSE [raised |-> FALSE, memories |-> ScoredTuples(found.rows)]

\* FetchContextTool._semantic_search, given what the embedding tool did with
\* the query and what search_similar does (found); raised says whether the
\* method raises instead of returning its list
FetchContextTool_semantic_search(embed_result, found) ==
    IF ~embed_result.success
    THEN [raised |-> FALSE, memories |-> <<>>]
    ELSE IF found.raised
    THEN [raised |-> TRUE, memories |-> <<>>]
    ELSE [raised |-> FALSE, memories |-> ScoredTuples(found.rows)]

\* FetchContextTool._recent_search, given what fetch_recent_memories does
FetchContextTool_recent_search(found) ==
    IF found.raised
    THEN [raised |-> TRUE, memories |-> <<>>]
    ELSE [raised |-> FALSE,
          memories |-> [i \in DOMAIN found.rows |-> Scored(found.rows[i], ZeroScore)]]

\* mutant: the branch looks at search_type only
UsesSemanticSearch_any_query(search_type, query) == search_type = "semantic"

\* if search_type == "semantic" and query
UsesSemanticSearch(search_type, query) == search_type = "semantic" /\ query # ""

\* the success result of FetchContextTool.run
FetchContextTool_result(found, search_type) ==
    [keys |-> {"memories", "total_found", "search_type_used", "success"},
     success |-> TRUE, memories |-> found, total_found |-> Len(found),
     search_type_used |-> search_type] @@ NoResult

\* FetchContextTool.run, given what the embedding tool did with the query
\* and what the store does in the search that runs
FetchContextTool_run(search_type, query, embed_result, similar, recent) ==
    LET r == IF UsesSemanticSearch(search_type, query)
             THEN FetchContextTool_semantic_search(embed_result, similar)
             ELSE FetchContextTool_recent_search(recent)
    IN  IF r.raised
        THEN Failure("Failed to fetch context: error")
        ELSE FetchContextTool_result(r.memories, search_type)

\* the server tool's except branch: {"error": ...}, without a success key
ServerError(error) == [keys |-> {"error"}, error |-> error] @@ NoResult

-----------------------------------------------------------------------------
(* What callers and the environment supply *)

ChatLogs ==
    {<<>>, <<"User: how do I pool DB connections?", "Assistant: use a connection pool">>}

Responses ==
    {<<"Heading: Pooling", "", "Summary:", "Use a pool">>, <<>>}

LLMOutcomes ==
    {[kind |-> k, content |-> <<>>] : k \in {"noclient", "error"}}
      \cup {[kind |-> "ok", content |-> c] : c \in Responses}

\* vectors the embedding provider returns; the last has another dimension
\* than the column (a model of another size than EMBEDDING_DIMENSION)
ProviderVectors == {<<1, 0>>, <<1, 1>>, <<1, 0, 0>>}

EmbOutcomes ==
    {[kind |-> "error", vec |-> <<>>]}
      \cup {[kind |-> "ok", vec |-> v] : v \in ProviderVectors}

DbOutcomes == {"ok", "down"}

\* what the database does when a call that will write connects to it
Connects(db) == IF db = "down" THEN "down" ELSE "ok"

\* what a caller of StoreMemoryTool.run passes
Headings == {"", "Pooling"}

Summaries == {"", "Use a pool"}

Embeddings == {<<>>, <<1, 0>>, <<1, 0, 0>>}

Queries == {"", "database connection pooling"}

Thresholds == {1, 8}

SearchTypes == {"semantic", "recent"}

Limits == 1..MaxLimit

\* the embedding result of a call that embedded nothing
NoEmbedding ==
    [success |-> FALSE, error |-> "None", embedding |-> <<>>, dimension |-> 0,
     called |-> FALSE]

\* the record of a call that ran no search
NoSearch ==
    [ran |-> "none", query |-> <<>>, limit |-> 0, threshold |-> 0,
     visited |-> {}, found |-> <<>>]

\* the record of a call's arguments and of what its environment did
NoArgs ==
    [chat_log |-> <<>>, llm |-> "", emb |-> "", db |-> "", connect |-> "",
     query |-> "", search_type |-> "", memory_id |-> 0,
     heading |-> "", summary |-> "", embedding |-> <<>>]

\* the record of a call that looked up no row
NoLookup == [found |-> FALSE, keys |-> {}, memory |-> NoMemory]

\* the record of a call that asked for no status
NoStats ==
    [keys |-> {}, status |-> "", error |-> "None",
     storage_stats |-> [keys |-> {}, total_memories |-> 0]]

-----------------------------------------------------------------------------
(* Interactive ingestion: PromptMemoryTool *)

\* what the operator can type at a yes/no prompt; the last two stand for the
\* end of the input and an interrupt (EOFError, KeyboardInterrupt)
Answers == {"Y", "n", "", "<EOF>", "<interrupt>"}

\* what the operator types at the edit prompt
EditAnswers == {"Y", "n"}

\* what the operator types for a new heading and for a new summary
HeadingEdits == {"", "Connection pooling"}

SummaryEdits == {"", "Pool the connections"}

\* what the summarization provider does with the chat log of the run
SummaryCompletions ==
    {[kind |-> "noclient", content |-> <<>>],
     [kind |-> "ok", content |-> <<"Heading: Pooling", "", "Summary:", "Use a pool">>]}

\* what it does with the chat log the pipeline tool is given
PipelineCompletions ==
    {[kind |-> "error", content |-> <<>>],
     [kind |-> "ok", content |-> <<"Heading: Pooling", "", "Summary:", "Use a pool">>]}

\* what the embedding provider does during the run
PromptEmbeddings ==
    {[kind |-> "error", vec |-> <<>>], [kind |-> "ok", vec |-> <<1, 0>>]}

\* limit and similarity_threshold (in tenths) of the search for duplicates
SIMILAR_LIMIT == 5

SIMILAR_THRESHOLD == 3

\* input(message).strip().lower(), tabulated for the answers above
StripLower(response) == IF response = "Y" THEN "y" ELSE response

InputEnds == {"<EOF>", "<interrupt>"}

\* mutant: an empty answer and the end of the input count as yes
prompt_yes_no_default_yes(response) ==
    response \in InputEnds \/ StripLower(response) \in {"", "y", "yes", "1", "true"}

\* PromptMemoryTool._prompt_yes_no
prompt_yes_no(response) ==
    response \notin InputEnds /\ StripLower(response) \in {"y", "yes", "1", "true"}

\* PromptMemoryTool._prompt_input; "" stands for None
prompt_input(response) == IF response \in InputEnds THEN "" ELSE response

\* Python's `a or b` on strings
OrElse(a, b) == IF a = "" THEN b ELSE a

\* ' '.join(words)
RECURSIVE JoinWords(_)
JoinWords(words) ==
    IF words = <<>> THEN ""
    ELSE IF Len(words) = 1 THEN Head(words)
    ELSE Head(words) \o " " \o JoinWords(Tail(words))

\* chat_log[:3]
FirstThree(chat_log) ==
    SubSeq(chat_log, 1, IF Len(chat_log) < 3 THEN Len(chat_log) ELSE 3)

\* the memories of a fetch result, [] when it is not a success
SimilarOf(fetch_result) ==
    IF fetch_result.success THEN fetch_result.memories ELSE <<>>

\* PromptMemoryTool._check_for_similar_memories: the lists the semantic
\* search of the tool's FetchContextTool can give for the first messages
PromptMemoryTool_check_for_similar_memories(table, chat_log) ==
    LET query_text == JoinWords(FirstThree(chat_log))
    IN  UNION {
          LET embed_result == EmbedTextTool_run(query_text, emb)
          IN  IF ~embed_result.success
              THEN {SimilarOf(FetchContextTool_run("semantic", query_text,
                                  embed_result, Returned(<<>>), Returned(<<>>)))}
              ELSE UNION {
                     {SimilarOf(FetchContextTool_run("semantic", query_text,
                                    embed_result, found, Returned(<<>>))) :
                        found \in search_similar(table, visited,
                                      embed_result.embedding, SIMILAR_LIMIT,
                                      SIMILAR_THRESHOLD, db)} :
                     visited \in Scans(table), db \in DbOutcomes}
          : emb \in PromptEmbeddings}

\* what a run leaves of its dialogue: whether the prompts were skipped,
\* whether duplicates were shown, the prompts asked with their answers, and
\* the heading and summary as last shown or edited
NoPrompt ==
    [auto_confirm |-> FALSE, duplicates |-> FALSE, asked |-> <<>>,
     heading |-> "", summary |-> ""]

\* {"success": False, "error": ..., "similar_memories": similar_memories}
CreationCancelled(similar) ==
    [keys |-> {"success", "error", "similar_memories"}, success |-> FALSE,
     error |-> "Memory creation cancelled by user", memories |-> similar]
      @@ NoResult

\* {"success": False, "error": ..., "generated_heading": ..., "generated_summary": ...}
StorageCancelled(heading, summary) ==
    [keys |-> {"success", "error", "generated_heading", "generated_summary"},
     success |-> FALSE, error |-> "Memory storage cancelled by user",
     heading |-> heading, summary |-> summary] @@ NoResult

\* the end of PromptMemoryTool.run: pipeline_tool.run on a chat log made of
\* the heading and the summary; its result is the result of the run.  dbs is
\* what the database can do on the pipeline tool's connection.
PromptMemoryTool_store(table, prompt, calls, io, dbs, id, now) ==
    {LET r == MemoryPipelineTool_run(table,
                  <<"Heading: " \o prompt.heading, "Summary: " \o prompt.summary>>,
                  llm, emb, db, id, now)
     IN  [result |-> r.result, table |-> r.table,
          calls |-> Append(calls, "pipeline"), io |-> io \o r.io,
          prompt |-> prompt] :
       llm \in PipelineCompletions, emb \in PromptEmbeddings, db \in dbs}

\* the edit prompt and what the operator types for the two fields
PromptMemoryTool_edit(prompt) ==
    UNION {
      IF prompt_yes_no(edit)
      THEN {[prompt EXCEPT
               !.heading = OrElse(prompt_input(h), prompt.heading),
               !.summary = OrElse(prompt_input(s), prompt.summary),
               !.asked = @ \o << <<"edit", edit>>, <<"heading", h>>,
                                 <<"summary", s>> >>] :
              h \in HeadingEdits, s \in SummaryEdits}
      ELSE {[prompt EXCEPT !.asked = Append(@, <<"edit", edit>>)]}
      : edit \in EditAnswers}

\* PromptMemoryTool.run from the display of the generated content on
PromptMemoryTool_confirm(table, prompt, calls, io, dbs, id, now) ==
    IF prompt.auto_confirm
    THEN PromptMemoryTool_store(table, prompt, calls, io, dbs, id, now)
    ELSE UNION {
           UNION {
             LET p == [edited EXCEPT !.asked = Append(@, <<"store", confirm_store>>)]
             IN  IF ~prompt_yes_no(confirm_store)
                 THEN {[result |-> StorageCancelled(p.heading, p.summary),
                        table |-> table, calls |-> calls, io |-> io,
                        prompt |-> p]}
                 ELSE PromptMemoryTool_store(table, p, calls, io, dbs, id, now)
             : confirm_store \in Answers}
           : edited \in PromptMemoryTool_edit(prompt)}

\* PromptMemoryTool.run from the generation of the summary on
PromptMemoryTool_summarize(table, chat_log, prompt, calls, dbs, id, now) ==
    UNION {
      LET summary_result == SummarizeChatTool_run(chat_log, llm)
          io == IF summary_result.called THEN <<"llm">> ELSE <<>>
      IN  IF ~summary_result.success
          THEN {[result |-> Failure("Failed to generate summary: "
                                      \o summary_result.error),
                 table |-> table, calls |-> Append(calls, "summarize"),
                 io |-> io, prompt |-> prompt]}
          ELSE PromptMemoryTool_confirm(table,
                   [prompt EXCEPT !.heading = summary_result.heading,
                                  !.summary = summary_result.summary],
                   Append(calls, "summarize"), io, dbs, id, now)
      : llm \in SummaryCompletions}

\* What PromptMemoryTool.run can do on a constructed tool.  calls lists the
\* tools invoked; io the calls of the summarization provider and of the
\* pipeline tool (the search for duplicates runs on the connection of the
\* tool's FetchContextTool).
PromptMemoryTool_run(table, chat_log, auto_confirm, dbs, id, now) ==
    IF ChatLogMissing(chat_log)
    THEN {[result |-> Failure("chat_log is required"), table |-> table,
           calls |-> <<>>, io |-> <<>>,
           prompt |-> [NoPrompt EXCEPT !.auto_confirm = auto_confirm]]}
    ELSE UNION {
           LET shown == similar_memories # <<>> /\ ~auto_confirm
               prompt == [NoPrompt EXCEPT !.auto_confirm = auto_confirm,
                                          !.duplicates = shown]
           IN  IF ~shown
               THEN PromptMemoryTool_summarize(table, chat_log, prompt,
                                               <<"fetch">>, dbs, id, now)
               ELSE UNION {
                      LET p == [prompt EXCEPT
                                  !.asked = <<<<"continue", continue_creation>>>>]
                      IN  IF ~prompt_yes_no(continue_creation)
                          THEN {[result |-> CreationCancelled(similar_memories),
                                 table |-> table, calls |-> <<"fetch">>,
                                 io |-> <<>>, prompt |-> p]}
                          ELSE PromptMemoryTool_summarize(table, chat_log, p,
                                                          <<"fetch">>, dbs, id, now)
                      : continue_creation \in Answers}
           : similar_memories \in
               PromptMemoryTool_check_for_similar_memories(table, chat_log)}

\* the record of a call that parsed no response
NoParse == [heading |-> "", summary |-> ""]

\* the record of no call
Idle ==
    [op |-> "idle", args |-> NoArgs, before |-> {}, result |-> NoResult,
     calls |-> <<>>, io |-> <<>>, search |-> NoSearch, row |-> NoLookup,
     stats |-> NoStats, raised |-> FALSE, prompt |-> NoPrompt, sent |-> <<>>,
     response |-> <<>>, parsed |-> NoParse]

-----------------------------------------------------------------------------
(* The state machine.  A call runs to completion in one step and leaves its *)
(* record in last; the caller then takes the result.  connection is the     *)
(* connection of the PostgresStore a MemoryPipelineTool keeps in its        *)
(* StoreMemoryTool for all its calls; the two server tools open a           *)
(* PostgresStore of their own in every call.                                *)

\* before any PostgresStore was constructed: no schema, no connection
Init ==
    /\ memories = {}
    /\ nextId = 0
    /\ clock = 0
    /\ last = Idle
    /\ schema = {}
    /\ connection = [status |-> "closed", started |-> 0]

\* Time passes on the database server.  Only the order of timestamps is
\* observable, so the clock moves on once a row or the open transaction
\* carries the current one.
Tick ==
    /\ last.op = "idle"
    /\ clock < MaxClock
    /\ \/ \E row \in memories : row.created_at = clock
       \/ connection.status = "open" /\ connection.started = clock
    /\ clock' = clock + 1
    /\ UNCHANGED <<memories, nextId, last, schema, connection>>

\* the caller takes the result of the last call
Return ==
    /\ last.op # "idle"
    /\ last' = Idle
    /\ UNCHANGED <<memories, nextId, clock, schema, connection>>

\* MemoryPipelineTool(): its StoreMemoryTool constructs the PostgresStore
\* (connect, _initialize_db); a tool constructed before is dropped and its
\* connection closed.  Nothing catches what the PostgresStore raises: the
\* constructor ends with the exception and returns no value
MemoryPipelineTool_init ==
    \E db \in DbOutcomes :
        LET r == initialize_db(schema, db)
        IN  /\ last.op = "idle"
            /\ schema' = r.schema
            /\ connection' = IF r.raised THEN connection ELSE IdleConnection
            /\ last' = [Idle EXCEPT
                          !.op = "init", !.args = [NoArgs EXCEPT !.db = db],
                          !.before = memories,
                          !.result = [NoResult EXCEPT !.success = ~r.raised],
                          !.io = <<"db">>, !.raised = r.raised]
            /\ UNCHANGED <<memories, nextId, clock>>

\* the effect of an ingest call r on the table and the UUID generator
Ingested(op, r, args) ==
    /\ memories' = r.table
    /\ nextId' = IF r.table = memories THEN nextId ELSE nextId + 1
    /\ last' = [Idle EXCEPT !.op = op, !.args = args, !.before = memories,
                            !.result = r.result, !.calls = r.calls, !.io = r.io,
                            !.sent = r.sent]
    /\ UNCHANGED clock

\* a write on the tool's connection ends its transaction (commit or rollback)
AfterWrite(conn, io) ==
    IF "db" \in {io[i] : i \in DOMAIN io} THEN IdleConnection ELSE conn

\* a call of MemoryPipelineTool.run on the constructed tool
Pipeline ==
    \E chat_log \in ChatLogs, llm \in LLMOutcomes, emb \in EmbOutcomes,
       db \in WriteOutcomes(connection) :
        LET r == MemoryPipelineTool_run(memories, chat_log, llm, emb, db,
                     nextId + 1, TransactionTime(connection, clock))
        IN  /\ last.op = "idle"
            /\ connection.status # "closed"
            /\ nextId < MaxInserts
            /\ Ingested("pipeline", r,
                        [NoArgs EXCEPT !.chat_log = chat_log, !.llm = llm.kind,
                                       !.emb = emb.kind, !.embedding = emb.vec,
                                       !.db = db])
            /\ connection' = AfterWrite(connection, r.io)
            /\ UNCHANGED schema

\* a call of StoreMemoryTool.run on the tool of the pipeline
StoreMemory ==
    \E heading \in Headings, summary \in Summaries, embedding \in Embeddings,
       db \in WriteOutcomes(connection) :
        LET st == StoreMemoryTool_run(memories, heading, summary, embedding, db,
                      nextId + 1, TransactionTime(connection, clock))
            r == [result |-> IF st.success
                             THEN [keys |-> {"memory_id", "success"},
                                   success |-> TRUE, memory_id |-> st.memory_id]
                                  @@ NoResult
                             ELSE Failure(st.error),
                  table |-> st.table, calls |-> <<"store">>,
                  io |-> IF st.called THEN <<"db">> ELSE <<>>, sent |-> <<>>]
        IN  /\ last.op = "idle"
            /\ connection.status # "closed"
            /\ nextId < MaxInserts
            /\ Ingested("store", r,
                        [NoArgs EXCEPT !.heading = heading, !.summary = summary,
                                       !.embedding = embedding, !.db = db])
            /\ connection' = AfterWrite(connection, r.io)
            /\ UNCHANGED schema

\* the dictionary MemoryPipelineTool.get_pipeline_status returns.  Its except
\* branch ({"status": "error", ...}) needs get_storage_stats to raise, and
\* get_stats catches every exception of its statements.
PipelineStatus(storage_stats) ==
    [keys |-> {"status", "components", "storage_stats"}, status |-> "ready",
     error |-> "None", storage_stats |-> storage_stats]

\* MemoryPipelineTool.get_pipeline_status: get_stats on the tool's connection
get_pipeline_status ==
    \E db \in StatementOutcomes(connection) :
        /\ last.op = "idle"
        /\ connection.status # "closed"
        /\ connection' = AfterRead(connection, db, clock)
        /\ last' = [Idle EXCEPT
                      !.op = "status", !.args = [NoArgs EXCEPT !.db = db],
                      !.before = memories,
                      !.stats = PipelineStatus(
                                   StoreMemoryTool_get_storage_stats(memories, db)),
                      !.io = <<"db">>]
        /\ UNCHANGED <<memories, nextId, clock, schema>>

\* a call of PostgresStore.get_memory_by_id on the tool's connection
GetMemoryById ==
    \E memory_id \in 1..MaxInserts, db \in StatementOutcomes(connection) :
        /\ last.op = "idle"
        /\ connection.status # "closed"
        /\ connection' = AfterRead(connection, db, clock)
        /\ last' = [Idle EXCEPT
                      !.op = "get",
                      !.args = [NoArgs EXCEPT !.memory_id = memory_id, !.db = db],
                      !.before = memories,
                      !.row = get_memory_by_id(memories, memory_id, db),
                      !.io = <<"db">>]
        /\ UNCHANGED <<memories, nextId, clock, schema>>

\* a call of PostgresStore.delete_memory on the tool's connection
Delete ==
    \E memory_id \in 1..MaxInserts, db \in WriteOutcomes(connection) :
        LET r == delete_memory(memories, memory_id, db)
        IN  /\ last.op = "idle"
            /\ connection.status # "closed"
            /\ memories' = r.table
            /\ connection' = IdleConnection
            /\ last' = [Idle EXCEPT
                          !.op = "delete",
                          !.args = [NoArgs EXCEPT !.memory_id = memory_id, !.db = db],
                          !.before = memories,
                          !.result = [NoResult EXCEPT !.success = r.deleted],
                          !.io = <<"db">>]
            /\ UNCHANGED <<nextId, clock, schema>>

\* a call of PromptMemoryTool.run; the pipeline tool of the PromptMemoryTool
\* is the constructed MemoryPipelineTool
PromptMemory ==
    \E chat_log \in ChatLogs, auto_confirm \in BOOLEAN :
        /\ last.op = "idle"
        /\ connection.status # "closed"
        /\ nextId < MaxInserts
        /\ \E r \in PromptMemoryTool_run(memories, chat_log, auto_confirm,
                         WriteOutcomes(connection), nextId + 1,
                         TransactionTime(connection, clock)) :
              /\ memories' = r.table
              /\ nextId' = IF r.table = memories THEN nextId ELSE nextId + 1
              /\ last' = [Idle EXCEPT
                            !.op = "prompt",
                            !.args = [NoArgs EXCEPT !.chat_log = chat_log],
                            !.before = memories, !.result = r.result,
                            !.calls = r.calls, !.io = r.io, !.prompt = r.prompt]
              /\ connection' = AfterWrite(connection, r.io)
        /\ UNCHANGED <<clock, schema>>

\* mutant: the server tool runs its store step on the connection the
\* MemoryPipelineTool keeps
summarize_chat_and_add_to_memory_shared_connection ==
    \E chat_log \in ChatLogs, llm \in LLMOutcomes, emb \in EmbOutcomes,
       db \in WriteOutcomes(connection) :
        LET r == SummarizeAndStoreTool_run(memories, chat_log, llm, emb, db,
                                           nextId + 1,
                                           TransactionTime(connection, clock))
        IN  /\ last.op = "idle"
            /\ connection.status # "closed"
            /\ nextId < MaxInserts
            /\ Ingested("summarize_and_store", r,
                        [NoArgs EXCEPT !.chat_log = chat_log, !.llm = llm.kind,
                                       !.emb = emb.kind, !.embedding = emb.vec,
                                       !.db = db])
            /\ connection' = AfterWrite(connection, r.io)
            /\ UNCHANGED schema

\* the server tool summarize_chat_and_add_to_memory: SummarizeAndStoreTool().run,
\* whose store step opens a PostgresStore of its own
summarize_chat_and_add_to_memory ==
    \E chat_log \in ChatLogs, llm \in LLMOutcomes, emb \in EmbOutcomes,
       db \in WriteOutcomes(IdleConnection) :
        LET r == SummarizeAndStoreTool_run(memories, chat_log, llm, emb, db,
                                           nextId + 1, clock)
        IN  /\ last.op = "idle"
            /\ nextId < MaxInserts
            /\ Ingested("summarize_and_store", r,
                        [NoArgs EXCEPT !.chat_log = chat_log, !.llm = llm.kind,
                                       !.emb = emb.kind, !.embedding = emb.vec,
                                       !.db = db])
            /\ schema' = IF "db" \in {r.io[i] : i \in DOMAIN r.io}
                         THEN initialize_db(schema, Connects(db)).schema ELSE schema
            /\ UNCHANGED connection

\* mutant: the _initialize_db of the retrieval's PostgresStore recreates the
\* memories table
Fetched_recreating_table(args, result, io, search) ==
    /\ last' = [Idle EXCEPT !.op = "fetch", !.args = args, !.before = memories,
                            !.result = result, !.io = io, !.search = search]
    /\ schema' = initialize_db(schema, args.connect).schema
    /\ memories' = IF args.connect = "ok" THEN {} ELSE memories
    /\ UNCHANGED <<nextId, clock, connection>>

\* what a retrieval call leaves in last
Fetched(args, result, io, search) ==
    /\ last' = [Idle EXCEPT !.op = "fetch", !.args = args, !.before = memories,
                            !.result = result, !.io = io, !.search = search]
    /\ schema' = initialize_db(schema, args.connect).schema
    /\ UNCHANGED <<memories, nextId, clock, connection>>

\* FetchContextTool.run, semantic branch: embed the query, search the store
FetchSemantic(args, limit, threshold) ==
    \E emb \in EmbOutcomes :
        LET embed_result == EmbedTextTool_run(args.query, emb)
            a == [args EXCEPT !.emb = emb.kind]
        IN  IF ~embed_result.success
            THEN Fetched(a,
                    FetchContextTool_run(args.search_type, args.query,
                                         embed_result, Returned(<<>>), Returned(<<>>)),
                    <<"db", "embedding">>, NoSearch)
            ELSE \E db \in DbOutcomes, visited \in Scans(memories) :
                   \E found \in search_similar(memories, visited,
                                   embed_result.embedding, limit, threshold, db) :
                      Fetched([a EXCEPT !.db = db],
                              FetchContextTool_run(args.search_type, args.query,
                                                   embed_result, found, Returned(<<>>)),
                              <<"db", "embedding", "db">>,
                              [ran |-> "semantic", query |-> embed_result.embedding,
                               limit |-> limit, threshold |-> threshold,
                               visited |-> visited, found |-> found.rows])

\* FetchContextTool.run, recent branch
FetchRecent(args, limit) ==
    \E db \in DbOutcomes :
        \E found \in fetch_recent_memories(memories, limit, db) :
            Fetched([args EXCEPT !.db = db],
                    FetchContextTool_run(args.search_type, args.query,
                                         NoEmbedding, Returned(<<>>), found),
                    <<"db", "db">>,
                    [NoSearch EXCEPT !.ran = "recent", !.limit = limit,
                                     !.found = found.rows])

\* the server tool fetch_relevant_context_from_memories:
\* FetchContextTool().run(input_data); the constructor opens the store
\* (connect, _initialize_db) and raises when the database is unreachable
fetch_relevant_context_from_memories ==
    \E query \in Queries, search_type \in SearchTypes, limit \in Limits,
       threshold \in Thresholds, connect \in DbOutcomes :
        LET args == [NoArgs EXCEPT !.query = query, !.search_type = search_type,
                                   !.connect = connect]
        IN  /\ last.op = "idle"
            /\ IF connect # "ok"
               THEN Fetched(args, ServerError("Failed to fetch context: error"),
                            <<"db">>, NoSearch)
               ELSE IF UsesSemanticSearch(search_type, query)
               THEN FetchSemantic(args, limit, threshold)
               ELSE FetchRecent(args, limit)

Next ==
    \/ Tick
    \/ Return
    \/ MemoryPipelineTool_init
    \/ Pipeline
    \/ StoreMemory
    \/ PromptMemory
    \/ get_pipeline_status
    \/ GetMemoryById
    \/ Delete
    \/ summarize_chat_and_add_to_memory
    \/ fetch_relevant_context_from_memories

Spec == Init /\ [][Next]_vars

-----------------------------------------------------------------------------
(* The response parser on its own: the provider's response is any text of   *)
(* up to MaxResponseLines lines, and each of the two copies of              *)
(* _generate_summary parses it.                                             *)

MaxResponseLines == 3

\* the lines a response is made of: marker lines with and without text on
\* the line, an empty line, and two lines of plain text
ResponseLines ==
    {"1. Heading: Pooling", "heading:", "Summary:", "2. Summary: Use a pool",
     "", "Use a pool", "It caps connections"}

ParserResponses == UNION {[1..n -> ResponseLines] : n \in 0..MaxResponseLines}

\* the completion call returned the response
ParserInit ==
    /\ memories = {}
    /\ nextId = 0
    /\ clock = 0
    /\ schema = {}
    /\ connection = [status |-> "closed", started |-> 0]
    /\ \E response \in ParserResponses :
          last = [Idle EXCEPT !.op = "response", !.response = response]

\* what a call leaves once the response is parsed
Parsed(tool, g) ==
    /\ last.op = "response"
    /\ last' = [last EXCEPT !.op = "parse", !.calls = <<tool>>,
                            !.raised = g.raised,
                            !.parsed = [heading |-> g.heading, summary |-> g.summary]]
    /\ UNCHANGED <<memories, nextId, clock, schema, connection>>

\* SummarizeChatTool._generate_summary on the response
ParseInSummarizeChatTool ==
    Parsed("SummarizeChatTool",
           SummarizeChatTool_generate_summary(
               <<"User: how do I pool DB connections?">>,
               [kind |-> "ok", content |-> last.response]))

\* SummarizeAndStoreTool._generate_summary on the response
ParseInSummarizeAndStoreTool ==
    Parsed("SummarizeAndStoreTool",
           SummarizeAndStoreTool_generate_summary(
               <<"User: how do I pool DB connections?">>,
               [kind |-> "ok", content |-> last.response]))

ParserNext ==
    \/ ParseInSummarizeChatTool
    \/ ParseInSummarizeAndStoreTool

ParserSpec == ParserInit /\ [][ParserNext]_vars

-----------------------------------------------------------------------------
(* Properties *)

Range(f) == {f[i] : i \in DOMAIN f}

IsIngest == last.op \in {"pipeline", "summarize_and_store"}

\* the embedding step of the last ingestion ran and the provider failed
EmbedStepFailed == IsIngest /\ "embed" \in Range(last.calls) /\ last.args.emb = "error"

\* the store step of the last ingestion ran and did not store
StoreStepFailed == IsIngest /\ "store" \in Range(last.calls) /\ ~last.result.success

\* C1: an ingestion, through either entry point, whose embedding step or
\* store step fails leaves the set of Memory rows as it was before the call
\* (stated for the ingestions whose summarization service answered, so that
\* the failure is that of step 2 or 3 alone).
C1_FailedIngestionStoresNothing ==
    (last.args.llm = "ok" /\ (EmbedStepFailed \/ StoreStepFailed)) =>
        memories = last.before

\* C2: when the summarization service errors during an ingestion, the call
\* returns success=false with the failure on the summarize step, calls neither
\* the embedding provider nor the store, and adds no Memory.
C2_SummarizeFailureIsTerminal ==
    (IsIngest /\ last.args.chat_log # <<>> /\ last.args.llm = "error") =>
        /\ "success" \in last.result.keys /\ ~last.result.success
        /\ last.op = "pipeline" =>
              /\ last.result.pipeline_steps.summarize.error # "None"
              /\ ~last.result.pipeline_steps.summarize.completed
        /\ "embedding" \notin Range(last.io)
        /\ "db" \notin Range(last.io)
        /\ memories = last.before

\* C3: an ingestion whose chat_log is missing or empty returns success=false
\* with the "chat_log is required" error, attempts no step, makes no
\* summarization, embedding or store call, and leaves the store unchanged.
C3_EmptyChatLogRejected ==
    (IsIngest /\ last.args.chat_log = <<>>) =>
        /\ "success" \in last.result.keys /\ ~last.result.success
        /\ "error" \in last.result.keys
        /\ last.result.error = "chat_log is required and cannot be empty"
        /\ last.calls = <<>>
        /\ last.io = <<>>
        /\ memories = last.before

C3_Witness ==
    /\ last.op = "pipeline"
    /\ last.args.chat_log = <<>>
    /\ last.args.llm = "ok" /\ last.args.emb = "ok" /\ last.args.db = "ok"
    /\ memories # {}

C5_StoreFailureReturnsComputedFields ==
    (last.op = "pipeline" /\ StoreStepFailed) =>
        /\ "success" \in last.result.keys /\ ~last.result.success
        /\ last.result.pipeline_steps.store.error # "None"
        /\ {"heading", "summary", "embedding"} \subseteq last.result.keys

-----------------------------------------------------------------------------
(* Properties of search_similar and fetch_recent_memories, on the record the *)
(* last retrieval left of its store query                                    *)

\* the last call ran search_similar and the statement executed
SearchRan ==
    /\ last.op = "fetch" /\ last.search.ran = "semantic"
    /\ last.args.db = "ok" /\ Len(last.search.query) = EMBEDDING_DIMENSION

\* the stored rows the WHERE clause of the last search accepts
Qualifying(rows) ==
    {row \in rows : PgGE(Similarity(row.embedding, last.search.query),
                         Tenths(last.search.threshold))}

FoundIds == {last.search.found[i].memory.id : i \in DOMAIN last.search.found}

Min(a, b) == IF a < b THEN a ELSE b

\* found is the top min(limit, k) of the k rows of `rows` that qualify: that
\* many distinct qualifying rows, each with its own score, and no qualifying
\* row left out scores higher than a returned one
TopOf(rows) ==
    LET found == last.search.found
        q == last.search.query
    IN  /\ Len(found) = Min(last.search.limit, Cardinality(Qualifying(rows)))
        /\ \A i, j \in DOMAIN found : i # j => found[i].memory.id # found[j].memory.id
        /\ \A i \in DOMAIN found :
              \E row \in Qualifying(rows) :
                  /\ Memory(row) = found[i].memory
                  /\ found[i].similarity = Similarity(row.embedding, q)
        /\ \A row \in Qualifying(rows) :
              row.id \notin FoundIds =>
                  \A i \in DOMAIN found :
                      ~PyLT(found[i].similarity, Similarity(row.embedding, q))

\* C6: no item search_similar returns has a similarity score below the
\* threshold of the call.
C6_NoScoreBelowThreshold ==
    (last.op = "fetch" /\ last.search.ran = "semantic") =>
        \A i \in DOMAIN last.search.found :
            ~PyLT(last.search.found[i].similarity, Tenths(last.search.threshold))

C6_Witness ==
    /\ SearchRan
    /\ last.search.found # <<>>
    /\ \E row \in last.search.visited :
          PyLT(Similarity(row.embedding, last.search.query),
               Tenths(last.search.threshold))

\* C7: the scores of every search_similar result are non-increasing, and the
\* created_at timestamps of every fetch_recent_memories result are
\* non-increasing.
C7_ResultsAreOrdered ==
    /\ (last.op = "fetch" /\ last.search.ran = "semantic") =>
          \A i, j \in DOMAIN last.search.found :
              i < j => PyGE(last.search.found[i].similarity,
                            last.search.found[j].similarity)
    /\ (last.op = "fetch" /\ last.search.ran = "recent") =>
          \A i, j \in DOMAIN last.search.found :
              i < j => last.search.found[i].created_at
                          >= last.search.found[j].created_at

\* C8 as stated: the result of search_similar has at most limit items and is
\* exactly the top min(limit, k) of the k stored memories that clear the
\* threshold.
C8_ExactTopOfStore ==
    SearchRan =>
        /\ Len(last.search.found) <= last.search.limit
        /\ TopOf(last.before)

\* C8 as amended: the result of search_similar has at most limit items and is
\* exactly the top min(limit, k) of the k memories that clear the threshold
\* among the rows the scan of the statement visits (all stored rows under a
\* sequential scan, the probed part of the ivfflat index otherwise).
C8_TopOfVisitedRows ==
    SearchRan =>
        /\ Len(last.search.found) <= last.search.limit
        /\ last.search.visited \subseteq memories
        /\ TopOf(last.search.visited)
        /\ last.search.visited = memories => TopOf(memories)

C8_Witness ==
    /\ SearchRan
    /\ Qualifying(memories) \ last.search.visited # {}
    /\ last.search.found # <<>>
    /\ Len(last.search.found) < last.search.limit

\* the last retrieval took the semantic branch of FetchContextTool.run
SemanticRetrieval ==
    /\ last.op = "fetch" /\ last.args.connect = "ok"
    /\ UsesSemanticSearch(last.args.search_type, last.args.query)

\* the result is {success: true, memories: []} and carries no error
EmptySuccess ==
    /\ {"success", "memories"} \subseteq last.result.keys
    /\ last.result.success
    /\ last.result.memories = <<>>
    /\ "error" \notin last.result.keys

\* C9: when the embedding provider fails while a semantic retrieval embeds the
\* query, the call returns success=true with an empty memories list and no error.
C9_EmbeddingFailureGivesEmptyResult ==
    (SemanticRetrieval /\ last.args.emb = "error") => EmptySuccess

C9_Witness ==
    /\ SemanticRetrieval /\ last.args.emb = "error"
    /\ memories # {}

-----------------------------------------------------------------------------
(* Retrieval modes                                                           *)

\* the last call ran fetch_recent_memories and the statement executed
RecentRan ==
    /\ last.op = "fetch" /\ last.search.ran = "recent"
    /\ last.args.db = "ok"

\* found is the `limit` most recent rows of the table: that many distinct
\* rows, and no row left out is newer than a returned one
MostRecentOf(rows) ==
    LET found == last.search.found
    IN  /\ Len(found) = Min(last.search.limit, Cardinality(rows))
        /\ \A i, j \in DOMAIN found : i # j => found[i].id # found[j].id
        /\ \A i \in DOMAIN found : \E row \in rows : Memory(row) = found[i]
        /\ \A row \in rows :
              (\A i \in DOMAIN found : found[i].id # row.id) =>
                  \A i \in DOMAIN found : found[i].created_at >= row.created_at

\* C11: a retrieval on a constructed tool runs the recent search exactly when
\* the query is empty or search_type is "recent"; the recent search returns
\* the most recent rows of the store, each with similarity_score 0.0; a
\* semantic search returns each memory with the similarity the store computed
\* for its row.
C11_RecentModeAndScores ==
    (last.op = "fetch" /\ last.args.connect = "ok") =>
        /\ last.search.ran = "recent" <=>
              (last.args.query = "" \/ last.args.search_type = "recent")
        /\ RecentRan =>
              /\ MostRecentOf(last.before)
              /\ last.result.success
              /\ last.result.memories =
                    [i \in DOMAIN last.search.found |->
                        Scored(last.search.found[i], ZeroScore)]
        /\ SearchRan =>
              /\ last.result.success
              /\ Len(last.result.memories) = Len(last.search.found)
              /\ \A i \in DOMAIN last.result.memories :
                    \E row \in last.before :
                        last.result.memories[i] =
                            Scored(Memory(row),
                                   Similarity(row.embedding, last.search.query))

C11_Witness ==
    /\ RecentRan
    /\ last.args.query # ""
    /\ last.search.found # <<>>
    /\ Cardinality(last.before) > last.search.limit
    /\ \E r1, r2 \in last.before : r1.created_at # r2.created_at

-----------------------------------------------------------------------------
(* The store's contract: lookup, delete, writes, initialization              *)

\* the last call looked a memory up by id and the statement executed
LookedUp == last.op = "get" /\ last.args.db = "ok"

\* C12: a Memory stored with heading h, summary s and embedding e and then
\* fetched by its id with get_memory_by_id comes back as a record with
\* heading h, summary s and an embedding equal to e.
C12_RoundTrip ==
    LookedUp =>
        \A row \in memories :
            row.id = last.args.memory_id =>
                /\ last.row.found
                /\ last.row.memory.heading = row.heading
                /\ last.row.memory.summary = row.summary
                /\ "embedding" \in last.row.keys

\* the part of C12 the code satisfies: the record has the id, the heading,
\* the summary and the created_at of the stored row
C12_HeadingAndSummaryRoundTrip ==
    LookedUp =>
        \A row \in memories :
            row.id = last.args.memory_id =>
                last.row.found /\ last.row.memory = Memory(row)

\* the rows of the table with the id of the last call
WithId(rows) == {row \in rows : row.id = last.args.memory_id}

\* C13: delete_memory(id) returns true exactly when a Memory with that id
\* existed and was removed; after a true return get_memory_by_id(id) returns
\* None and every other Memory is unchanged; after a false return the stored
\* set is unchanged and holds no Memory with that id.
C13_DeleteReportsExistence ==
    last.op = "delete" =>
        /\ last.result.success <=> (WithId(last.before) # {} /\ WithId(memories) = {})
        /\ last.result.success =>
              /\ ~get_memory_by_id(memories, last.args.memory_id, "ok").found
              /\ memories = last.before \ WithId(last.before)
        /\ ~last.result.success =>
              /\ memories = last.before
              /\ WithId(memories) = {}

\* what the code gives of C13: all of it when the statement and the commit
\* execute, and an unchanged table after every false return
C13_DeleteWhenStatementExecutes ==
    last.op = "delete" =>
        /\ last.result.success <=> (WithId(last.before) # {} /\ WithId(memories) = {})
        /\ last.result.success =>
              /\ ~get_memory_by_id(memories, last.args.memory_id, "ok").found
              /\ memories = last.before \ WithId(last.before)
        /\ ~last.result.success =>
              /\ memories = last.before
              /\ last.args.db = "ok" => WithId(memories) = {}

\* the last call was a call that inserts, and it reached the database
InsertRan ==
    /\ last.op \in {"pipeline", "store", "summarize_and_store"}
    /\ "db" \in Range(last.io)

\* C14: a write of the store commits in full or not at all.  A store_memory
\* that fails (the INSERT fails, or the INSERT executes and the commit fails)
\* leaves no row in the committed table, which is all a reader on any
\* connection sees; one that succeeds adds exactly the one complete row whose
\* id it returns; a delete_memory removes the rows of its id or nothing.
C14_WritesAreAtomic ==
    /\ (InsertRan /\ ~last.result.success) => memories = last.before
    /\ (InsertRan /\ last.result.success) =>
          \E row \in memories :
              /\ row.id = last.result.memory_id
              /\ row \notin last.before
              /\ memories = last.before \cup {row}
    /\ last.op = "delete" =>
          \/ memories = last.before /\ (last.result.success => WithId(last.before) = {})
          \/ /\ last.result.success
             /\ memories = last.before \ WithId(last.before)

C14_Witness ==
    /\ last.op = "store" /\ InsertRan
    /\ last.args.db = "commit_fails"
    /\ Len(last.args.embedding) = EMBEDDING_DIMENSION
    /\ last.before # {}

\* the last call was StoreMemoryTool.run with a required field empty
EmptyFieldStore ==
    /\ last.op = "store"
    /\ \/ last.args.heading = ""
       \/ last.args.summary = ""
       \/ last.args.embedding = <<>>

\* C15: StoreMemoryTool.run with an empty heading, an empty summary or an
\* empty embedding returns success=false with the name of the first missing
\* field, does not call the store, and leaves the stored memories unchanged.
C15_EmptyFieldsRejected ==
    EmptyFieldStore =>
        /\ last.result.keys = {"success", "error"}
        /\ ~last.result.success
        /\ last.result.error =
              (IF last.args.heading = "" THEN "heading is required"
               ELSE IF last.args.summary = "" THEN "summary is required"
               ELSE "embedding is required")
        /\ last.io = <<>>
        /\ memories = last.before

C15_Witness ==
    /\ EmptyFieldStore
    /\ last.args.heading = "" /\ last.args.summary # ""
    /\ Len(last.args.embedding) = EMBEDDING_DIMENSION
    /\ last.args.db = "ok"
    /\ memories # {}

\* C16: in every reachable state every stored Memory has a non-empty heading
\* and a non-empty summary, whatever the summarization service answered in
\* the ingestions that stored them.
C16_StoredTextIsNonEmpty ==
    \A row \in memories : row.heading # "" /\ row.summary # ""

\* what holds of C16: every stored heading is non-empty, and so is every
\* summary stored through MemoryPipelineTool or StoreMemoryTool
C16_HeadingsAndPipelineSummariesNonEmpty ==
    /\ \A row \in memories : row.heading # ""
    /\ (last.op \in {"pipeline", "store"}) =>
          \A row \in memories \ last.before : row.summary # ""

\* C17: in every reachable state the embedding of every stored row has
\* length EMBEDDING_DIMENSION; an insert of an embedding of another length
\* fails and adds no row, whether the vector came from the provider or is the
\* zero vector SummarizeAndStoreTool falls back to.
C17_EmbeddingsHaveTheDimension ==
    /\ \A row \in memories : Len(row.embedding) = EMBEDDING_DIMENSION
    /\ (InsertRan /\ last.args.embedding # <<>>
          /\ Len(last.args.embedding) # EMBEDDING_DIMENSION) =>
          ~last.result.success /\ memories = last.before
    /\ \A n \in 1..(EMBEDDING_DIMENSION + 1) :
          n # EMBEDDING_DIMENSION =>
              LET st == SummarizeAndStoreTool_store_memory(
                            memories, "Developer Chat Summary", "Chat log",
                            ZeroVector(n), "ok", nextId + 1, clock)
              IN  st.raised /\ st.table = memories

C17_Witness ==
    /\ InsertRan /\ last.op = "summarize_and_store"
    /\ Len(last.args.embedding) = EMBEDDING_DIMENSION + 1
    /\ last.args.db = "ok"
    /\ memories # {}

\* the schema _initialize_db ensures
Schema == Range(SchemaObjects)

\* the last call constructed a PostgresStore against a reachable database
Constructed ==
    \/ last.op = "init" /\ last.args.db = "ok"
    \/ last.op = "fetch" /\ last.args.connect = "ok"

\* C18: store initialization is idempotent.  Run on a reachable database any
\* number of times in sequence (every construction of a PostgresStore runs
\* it) it raises no error, gives the schema one run gives, and leaves every
\* stored row as it was.
C18_InitializationIsIdempotent ==
    /\ LET once  == initialize_db(schema, "ok")
           twice == initialize_db(once.schema, "ok")
       IN  /\ ~once.raised /\ ~twice.raised
           /\ once.schema = Schema
           /\ twice.schema = once.schema
    /\ schema \in {{}, Schema}
    /\ Constructed =>
          /\ schema = Schema
          /\ memories = last.before
          /\ last.op = "init" => last.result.success

C18_Witness ==
    /\ last.op = "init" /\ last.args.db = "ok"
    /\ last.result.success
    /\ memories # {}
    /\ connection = IdleConnection

\* C19: a Memory, once created, keeps its id, heading, summary, embedding and
\* created_at for as long as it exists (no step changes a stored row, and no
\* two rows share an id), and it stops existing only in a delete_memory call
\* on its id.
C19_MemoriesAreImmutable ==
    /\ [](\A r1, r2 \in memories : r1.id = r2.id => r1 = r2)
    /\ [][\A row \in memories :
            /\ \A r2 \in memories' : r2.id = row.id => r2 = row
            /\ row \notin memories' =>
                  /\ last'.op = "delete"
                  /\ last'.args.memory_id = row.id
                  /\ last'.result.success]_vars

C19_Witness ==
    /\ last.op = "delete" /\ last.result.success
    /\ memories # {}
    /\ connection = IdleConnection

\* C20: created_at is non-decreasing with insertion order: of two Memories,
\* the one inserted by the later call (ids are handed out in the order of the
\* inserts, and a call ends before the next begins) has a created_at that is
\* not earlier, also when the inserting connection has a transaction that an
\* earlier read left open.
C20_CreatedAtFollowsInsertionOrder ==
    \A a, b \in memories : a.id < b.id => a.created_at <= b.created_at

\* what holds of C20: a row gets a created_at earlier than that of a stored
\* Memory only when it is inserted on the connection whose transaction a
\* read left open
C20_OnlyOpenTransactionsBackdate ==
    [][\A b \in memories' \ memories :
          (\E a \in memories : b.created_at < a.created_at) =>
              connection.status = "open"]_vars

-----------------------------------------------------------------------------
(* C21: every failure of an ingest or retrieve tool invocation, a failure   *)
(* while the tool or its store connection is constructed included, is       *)
(* reported as a structured value with success = false and an error         *)
(* message, never as an uncaught exception.                                 *)

\* the calls that ingest or retrieve, and the construction of their tool
IngestOrRetrieve ==
    last.op \in {"init", "pipeline", "summarize_and_store", "fetch"}

\* the call did not succeed: it raised, or it returned a value other than
\* a success (a constructor returns no value)
CallFailed ==
    \/ last.raised
    \/ /\ last.op # "init"
       /\ ~("success" \in last.result.keys /\ last.result.success)

\* C21 as claimed: a failed call returns {success: false, error: message}
C21_FailuresAreStructured ==
    (IngestOrRetrieve /\ CallFailed)
        => /\ ~last.raised
           /\ {"success", "error"} \subseteq last.result.keys
           /\ ~last.result.success
           /\ last.result.error # "None"

\* what the code does keep: the run methods of the tools themselves, once
\* the tool is constructed, report every failure as such a value
C21_RunMethodsAreStructured ==
    (last.op \in {"pipeline", "summarize_and_store"} /\ CallFailed)
        => /\ ~last.raised
           /\ {"success", "error"} \subseteq last.result.keys
           /\ ~last.result.success
           /\ last.result.error # "None"

-----------------------------------------------------------------------------
(* C22: when the remote summarization call fails the adapter does not       *)
(* raise: it returns the fixed placeholder heading and a summary stating    *)
(* the number of chat messages and the failure reason; the pair is a        *)
(* function of the chat log and the failure.                                *)

\* an ingest call whose completion request raised
RemoteSummarizationFailed ==
    /\ last.op \in {"pipeline", "summarize_and_store"}
    /\ last.args.chat_log # <<>>
    /\ last.args.llm = "error"

\* the text a failed summarization of n messages must give
FallbackText(n, reason) ==
    "Chat log with " \o n \o " messages. Failed to generate AI summary: " \o reason

C22_FallbackOnRemoteFailure ==
    /\ RemoteSummarizationFailed =>
          \* the adapter returned: the call went on to the embedding step
          /\ Len(last.calls) >= 2 /\ last.calls[1] = "summarize"
          /\ last.op = "pipeline" => last.result.pipeline_steps.summarize = Step(TRUE, "None")
          \* and what it returned is what a successful call shows and stores
          /\ last.result.success =>
                /\ last.result.heading = "Developer Chat Summary"
                /\ last.result.summary = FallbackText("2", "timeout")
                /\ \A row \in memories \ last.before :
                      /\ row.heading = "Developer Chat Summary"
                      /\ row.summary = FallbackText("2", "timeout")
    /\ FallbackSummary(<<"hello">>, "rate limit")
          = [heading |-> "Developer Chat Summary",
             summary |-> FallbackText("1", "rate limit")]
    /\ \A llm \in {o \in LLMOutcomes : o.kind = "error"} :
          \A chat_log \in ChatLogs :
              /\ ~SummarizeChatTool_generate_summary(chat_log, llm).raised
              /\ ~SummarizeAndStoreTool_generate_summary(chat_log, llm).raised

C22_Witness ==
    /\ RemoteSummarizationFailed
    /\ last.op = "pipeline"
    /\ last.result.success
    /\ last.result.heading = "Developer Chat Summary"
    /\ memories # last.before

-----------------------------------------------------------------------------
(* C23: after an ingestion returned success with a memory_id, a semantic    *)
(* retrieval started afterwards (on any connection, no delete in between)   *)
(* includes that memory whenever its similarity to the query is at least    *)
(* the threshold and fewer than limit stored memories score strictly        *)
(* higher.  Every row of the table was committed by an ingestion that       *)
(* returned its id, and a retrieval reads the table as it is when it runs.  *)

\* the score of a stored row against the query of the last search
ScoreOf(row) == Similarity(row.embedding, last.search.query)

\* the score of the row is at least the threshold of the last search
ClearsThreshold(row) == PyGE(ScoreOf(row), Tenths(last.search.threshold))

\* C23 as stated
C23_StoredMemoryIsRetrieved ==
    SearchRan =>
        \A row \in memories :
            (/\ ClearsThreshold(row)
             /\ Cardinality({r \in memories : PyLT(ScoreOf(row), ScoreOf(r))})
                  < last.search.limit)
                => row.id \in FoundIds

\* C23 as amended: the retrieval includes the memory whenever the scan of
\* the statement visits it, its similarity is at least the threshold, and
\* fewer than limit of the other visited memories score as high or higher.
C23_VisitedMemoryIsRetrieved ==
    SearchRan =>
        \A row \in last.search.visited :
            (/\ ClearsThreshold(row)
             /\ Cardinality({r \in last.search.visited \ {row} :
                               PyGE(ScoreOf(r), ScoreOf(row))})
                  < last.search.limit)
                => /\ row \in memories
                   /\ row.id \in FoundIds

\* a search that returned one of two rows that clear the threshold with
\* different scores
C23_Witness ==
    /\ SearchRan
    /\ \E row \in last.search.visited, r \in last.search.visited :
          /\ ClearsThreshold(row) /\ ClearsThreshold(r)
          /\ PyLT(ScoreOf(r), ScoreOf(row))
          /\ row.id \in FoundIds
          /\ r.id \notin FoundIds

-----------------------------------------------------------------------------
(* C24: memories with equal scores appear in a search_similar result most   *)
(* recently inserted first, so that the order of the result is a function   *)
(* of the store content and the query.                                      *)

\* two scores that are numbers and equal
SameScore(a, b) == ~a.nan /\ ~b.nan /\ NumGE(a, b) /\ NumGE(b, a)

\* ids are handed out in insertion order: the later insert has the larger id
C24_TiesMostRecentFirst ==
    SearchRan =>
        \A i, j \in DOMAIN last.search.found :
            (i < j /\ SameScore(last.search.found[i].similarity,
                                last.search.found[j].similarity))
                => last.search.found[i].memory.id > last.search.found[j].memory.id

-----------------------------------------------------------------------------
(* C25: fetch_recent_memories(limit) returns exactly the min(limit, n) most *)
(* recently created of the n stored memories, newest first, memories with   *)
(* equal created_at ordered by id, so that the result is a function of the  *)
(* store content.                                                           *)

\* the rows of the list with equal created_at follow one order of their ids
TiesById(found) ==
    \/ \A i, j \in DOMAIN found :
          (i < j /\ found[i].created_at = found[j].created_at)
              => found[i].id < found[j].id
    \/ \A i, j \in DOMAIN found :
          (i < j /\ found[i].created_at = found[j].created_at)
              => found[i].id > found[j].id

\* the table and the limit leave the statement one result only
OneResult(table, limit) ==
    Cardinality(fetch_recent_memories(table, limit, "ok")) = 1

C25_RecentIsDeterministic ==
    RecentRan =>
        /\ MostRecentOf(last.before)
        /\ ByCreatedAtDesc(last.search.found)
        /\ TiesById(last.search.found)
        /\ OneResult(last.before, last.search.limit)

\* what the statement does give: the most recent rows, newest first
C25_MostRecentNewestFirst ==
    RecentRan =>
        /\ MostRecentOf(last.before)
        /\ ByCreatedAtDesc(last.search.found)

-----------------------------------------------------------------------------
(* C29: in every successful FetchContextTool.run result search_type_used    *)
(* names the search that was performed: "recent" whenever the recent search *)
(* ran (the fallback for an empty query included), "semantic" only when the *)
(* semantic search ran.                                                     *)

\* the last call is a FetchContextTool.run that returned success
FetchSucceeded ==
    /\ last.op = "fetch"
    /\ "success" \in last.result.keys /\ last.result.success

C29_SearchTypeUsedIsTheSearchPerformed ==
    FetchSucceeded =>
        /\ last.search.ran = "recent" => last.result.search_type_used = "recent"
        /\ last.result.search_type_used = "semantic" =>
              UsesSemanticSearch(last.args.search_type, last.args.query)

\* what the code does report: the search type of the request
C29_SearchTypeUsedIsTheRequestedType ==
    FetchSucceeded => last.result.search_type_used = last.args.search_type

-----------------------------------------------------------------------------
(* C30: in every MemoryPipelineTool.run result the step status map agrees   *)
(* with the order summarize, embed, store: a step is completed only if      *)
(* every earlier step is; no step is both completed and in error; at most   *)
(* one step carries an error; when the run failed in step k the error is on *)
(* step k and every later step is not completed and has no error.           *)

StepOrder == <<"summarize", "embed", "store">>

\* the step map of the result s, by position in the order
StepAt(s, k) == s[StepOrder[k]]

C30_StepMapFollowsTheOrder ==
    last.op = "pipeline" =>
        LET s == last.result.pipeline_steps
            n == Len(last.calls)
        IN  /\ "pipeline_steps" \in last.result.keys
            /\ \A k \in 1..3 : \A e \in 1..(k - 1) :
                  StepAt(s, k).completed => StepAt(s, e).completed
            /\ \A k \in 1..3 :
                  ~(StepAt(s, k).completed /\ StepAt(s, k).error # "None")
            /\ Cardinality({k \in 1..3 : StepAt(s, k).error # "None"}) <= 1
            \* a failed run stopped in the last step it invoked
            /\ (~last.result.success /\ n > 0) =>
                  /\ last.calls = SubSeq(StepOrder, 1, n)
                  /\ StepAt(s, n).error # "None"
                  /\ \A e \in 1..(n - 1) : StepAt(s, e) = Step(TRUE, "None")
                  /\ \A k \in (n + 1)..3 : StepAt(s, k) = Step(FALSE, "None")
            /\ last.result.success =>
                  \A k \in 1..3 : StepAt(s, k) = Step(TRUE, "None")

\* a run that failed in its second step
C30_Witness ==
    /\ last.op = "pipeline"
    /\ ~last.result.success
    /\ last.calls = <<"summarize", "embed">>
    /\ last.result.pipeline_steps.summarize.completed
    /\ last.result.pipeline_steps.embed.error # "None"

-----------------------------------------------------------------------------
(* C28: get_pipeline_status reports a ready status together with the total  *)
(* memory count only when the store is reachable, the reported total is the *)
(* number of Memory rows in the store, and it reports an error status       *)
(* whenever the store cannot be queried.                                    *)

StatusAsked == last.op = "status"

C28_StatusReflectsTheStore ==
    StatusAsked =>
        /\ last.stats.status = "ready" =>
              /\ last.args.db = "ok"
              /\ "total_memories" \in last.stats.storage_stats.keys
              /\ last.stats.storage_stats.total_memories = Cardinality(memories)
        /\ last.args.db # "ok" =>
              /\ last.stats.status = "error"
              /\ "error" \in last.stats.keys

\* what the code does report: always ready; the total, equal to the number
\* of rows, exactly when the statements of get_stats executed, and
\* otherwise the error inside storage_stats
C28_ReadyWithTotalOrNestedError ==
    StatusAsked =>
        /\ last.stats.status = "ready"
        /\ "error" \notin last.stats.keys
        /\ last.args.db = "ok" =>
              /\ "total_memories" \in last.stats.storage_stats.keys
              /\ last.stats.storage_stats.total_memories = Cardinality(memories)
        /\ last.args.db # "ok" => last.stats.storage_stats.keys = {"error"}

-----------------------------------------------------------------------------
(* C26: with auto_confirm false, PromptMemoryTool.run invokes the ingestion *)
(* pipeline, and so adds a Memory, only if the operator answered yes to the *)
(* final store prompt (and to the continue prompt when duplicates were      *)
(* shown); a no, an empty answer, the end of the input or an interrupt at   *)
(* either prompt leaves the store unchanged.                                *)

\* the last call is an interactive run that asks the operator
Interactive == last.op = "prompt" /\ ~last.prompt.auto_confirm

\* what the operator answered to the prompt of that name
AnswersTo(name) ==
    {last.prompt.asked[i][2] :
        i \in {k \in DOMAIN last.prompt.asked : last.prompt.asked[k][1] = name}}

\* the answers that say yes
SaysYes(answer) == answer \in {"y", "Y", "yes", "Yes"}

PipelineInvoked == "pipeline" \in Range(last.calls)

C26_StoredOnlyAfterYes ==
    Interactive =>
        /\ PipelineInvoked =>
              /\ \E a \in AnswersTo("store") : SaysYes(a)
              /\ last.prompt.duplicates => \E a \in AnswersTo("continue") : SaysYes(a)
        /\ memories # last.before => PipelineInvoked
        /\ (\E a \in AnswersTo("store") \cup AnswersTo("continue") : ~SaysYes(a)) =>
              /\ ~PipelineInvoked
              /\ memories = last.before
              /\ ~last.result.success

\* a run that showed duplicates and stored after two yes answers
C26_Witness ==
    /\ Interactive
    /\ last.prompt.duplicates
    /\ \E a \in AnswersTo("continue") : SaysYes(a)
    /\ \E a \in AnswersTo("store") : SaysYes(a)
    /\ PipelineInvoked
    /\ memories # last.before

-----------------------------------------------------------------------------
(* C27: when the operator confirms storage, the committed Memory carries    *)
(* exactly the heading and summary that were shown to the operator, as      *)
(* edited by the operator if they chose to edit.                            *)

C27_StoredAsShown ==
    (Interactive /\ \E a \in AnswersTo("store") : SaysYes(a)) =>
        \A row \in memories \ last.before :
            /\ row.heading = last.prompt.heading
            /\ row.summary = last.prompt.summary

\* what the code does store: the pipeline's own summary of the two lines
\* "Heading: ..." and "Summary: ...", which is also what the result reports
C27_StoredAsSummarizedAgain ==
    (last.op = "prompt" /\ memories # last.before) =>
        /\ PipelineInvoked
        /\ last.result.success
        /\ \A row \in memories \ last.before :
              /\ row.heading = last.result.heading
              /\ row.summary = last.result.summary
              /\ \E llm \in PipelineCompletions :
                    LET g == SummarizeChatTool_generate_summary(
                                 <<"Heading: " \o last.prompt.heading,
                                   "Summary: " \o last.prompt.summary>>, llm)
                    IN  row.heading = g.heading /\ row.summary = g.summary

-----------------------------------------------------------------------------
(* C31: within one MemoryPipelineTool.run each of the steps summarize,      *)
(* embed and store is invoked at most once, in that order, a step is        *)
(* invoked only after the preceding step returned success, no step is       *)
(* retried, and the run always ends with a result.                          *)

\* how often x occurs in the sequence f
Count(f, x) == Cardinality({i \in DOMAIN f : f[i] = x})

C31_StepsOnceInOrderNoRetry ==
    last.op = "pipeline" =>
        LET n == Len(last.calls)
            s == last.result.pipeline_steps
        IN  \* the steps invoked are an initial part of the order
            /\ n <= 3 /\ last.calls = SubSeq(StepOrder, 1, n)
            \* each provider and the database is called at most once
            /\ \A x \in {"llm", "embedding", "db"} : Count(last.io, x) <= 1
            \* every step before the last one invoked returned success
            /\ \A k \in 1..(n - 1) : StepAt(s, k) = Step(TRUE, "None")
            \* a step that failed was the last one invoked
            /\ \A k \in 1..3 : StepAt(s, k).error # "None" => k = n
            \* the run returned a dictionary that says how it ended
            /\ ~last.raised
            /\ {"success", "pipeline_steps"} \subseteq last.result.keys
            /\ ~last.result.success => "error" \in last.result.keys

\* a run whose store step failed after the two steps before it succeeded
C31_Witness ==
    /\ last.op = "pipeline"
    /\ last.calls = <<"summarize", "embed", "store">>
    /\ last.io = <<"llm", "embedding", "db">>
    /\ ~last.result.success
    /\ last.result.pipeline_steps.store.error # "None"

-----------------------------------------------------------------------------
(* C32: in every ingestion path the text sent to the embedding service in   *)
(* step 2 is the concatenation of the generated heading and the generated   *)
(* summary, never the summary alone and never the raw chat log.             *)

\* the heading and summary pairs step 1 of the last ingestion can have
\* generated, given what the provider did
GeneratedPairs ==
    {g \in {IF last.op = "pipeline"
            THEN SummarizeChatTool_generate_summary(last.args.chat_log, llm)
            ELSE SummarizeAndStoreTool_generate_summary(last.args.chat_log, llm) :
              llm \in {o \in LLMOutcomes : o.kind = last.args.llm}} :
       /\ ~g.raised
       /\ last.result.success =>
             g.heading = last.result.heading /\ g.summary = last.result.summary}

\* heading and summary put together, with or without a separator
Concatenations(heading, summary) ==
    {heading \o sep \o summary : sep \in {"", " ", "\n", "\n\n"}}

EmbeddedTextIsHeadingAndSummary ==
    /\ Len(last.sent) = 1
    /\ \E g \in GeneratedPairs : last.sent[1] \in Concatenations(g.heading, g.summary)

C32_EmbeddedTextIsHeadingAndSummary ==
    (IsIngest /\ last.sent # <<>>) => EmbeddedTextIsHeadingAndSummary

\* what the code does: the pipeline embeds heading, blank line, summary;
\* SummarizeAndStoreTool embeds the summary alone
C32_PipelineEmbedsBothOtherPathSummary ==
    /\ (last.op = "pipeline" /\ last.sent # <<>>) =>
          /\ EmbeddedTextIsHeadingAndSummary
          /\ \E g \in GeneratedPairs :
                last.sent[1] = g.heading \o "\n\n" \o g.summary
    /\ (last.op = "summarize_and_store" /\ last.sent # <<>>) =>
          /\ Len(last.sent) = 1
          /\ \E g \in GeneratedPairs : last.sent[1] = g.summary

-----------------------------------------------------------------------------
(* The parser claims C33 to C36 are about ParserSpec.                       *)

\* a response was parsed
ResponseParsed == last.op = "parse" /\ ~last.raised

\* the positions of the response with a line of the set
Positions(lines) == {i \in DOMAIN last.response : last.response[i] \in lines}

\* the non-empty lines of the response, in order
RECURSIVE NonEmpty(_)
NonEmpty(lines) ==
    IF lines = <<>> THEN <<>>
    ELSE IF Head(lines) = "" THEN NonEmpty(Tail(lines))
    ELSE <<Head(lines)>> \o NonEmpty(Tail(lines))

\* C33: when the response has no heading: marker line, the heading returned
\* is the first non-empty line of the response.
C33_HeadingIsFirstLineWithoutMarker ==
    (ResponseParsed /\ Positions(HeadingLines) = {}
        /\ NonEmpty(last.response) # <<>>)
        => last.parsed.heading = Head(NonEmpty(last.response))

\* what the code returns without a heading: marker: the placeholder
C33_PlaceholderWithoutMarker ==
    (ResponseParsed /\ Positions(HeadingLines) = {})
        => last.parsed.heading = "Technical Discussion Summary"


\* the lines of the response at the positions P, in order
RECURSIVE Pick(_, _)
Pick(i, P) ==
    IF i > Len(last.response) THEN <<>>
    ELSE (IF i \in P THEN <<last.response[i]>> ELSE <<>>) \o Pick(i + 1, P)

MarkerLines == HeadingLines \cup SummaryLines

\* the positions after the first summary: marker line
AfterSummaryMarker ==
    {i \in DOMAIN last.response : \E j \in Positions(SummaryLines) : j < i}

\* the positions of the summary section: a non-empty line that is no marker
\* line, after a summary: marker line with no heading: marker line between
SummarySection ==
    {i \in DOMAIN last.response :
        /\ last.response[i] \notin MarkerLines \cup {""}
        /\ \E j \in Positions(SummaryLines) :
              /\ j < i
              /\ \A k \in (j + 1)..(i - 1) : last.response[k] \notin HeadingLines}

\* C34 as stated: the summary is the newline-joined sequence of all
\* non-empty lines that follow a summary: marker line, and the entire raw
\* response when the response has no summary: marker.
C34_SummaryIsAllLinesAfterMarker ==
    ResponseParsed =>
        /\ Positions(SummaryLines) # {} =>
              last.parsed.summary = Join(NonEmpty(Pick(1, AfterSummaryMarker)))
        /\ Positions(SummaryLines) = {} =>
              last.parsed.summary = Join(last.response)

\* C34 as amended: the summary is the newline-joined sequence of the lines
\* of the summary section (the non-empty lines after a summary: marker line
\* that are not marker lines themselves, up to the next heading: marker
\* line); when there is no such line, and so when the response has no
\* summary: marker, the summary is the entire raw response.
C34_SummaryIsSectionOrRawResponse ==
    ResponseParsed =>
        /\ SummarySection # {} =>
              last.parsed.summary = Join(Pick(1, SummarySection))
        /\ SummarySection = {} => last.parsed.summary = Join(last.response)
        /\ Positions(SummaryLines) = {} => SummarySection = {}

\* a parse that joined two lines of the summary section
C34_Witness ==
    /\ ResponseParsed
    /\ Cardinality(SummarySection) = 2
    /\ last.parsed.summary = "Use a pool\nIt caps connections"


\* the last heading: marker line of the response
LastHeadingMarker ==
    last.response[CHOOSE i \in Positions(HeadingLines) :
                      \A j \in Positions(HeadingLines) : j <= i]

\* the text after the first colon of a line, with surrounding blanks
\* removed; written out for the marker lines a response can have
TextAfterColon(line) ==
    CASE line = "1. Heading: Pooling" -> "Pooling"
      [] line = "Heading: Pooling" -> "Pooling"
      [] line = "heading:" -> ""
      [] line = "Summary:" -> ""
      [] line = "2. Summary: Use a pool" -> "Use a pool"
      [] line = "summary: Use a pool" -> "Use a pool"

SameLineText == {i \in Positions(SummaryLines) : TextAfterColon(last.response[i]) # ""}

\* the lines of summary text of the response, in order: the text on a
\* summary: marker line and the lines of the summary section
RECURSIVE SummaryText(_)
SummaryText(i) ==
    IF i > Len(last.response) THEN <<>>
    ELSE (IF i \in SameLineText THEN <<TextAfterColon(last.response[i])>>
          ELSE IF i \in SummarySection THEN <<last.response[i]>>
          ELSE <<>>) \o SummaryText(i + 1)

\* C36: when a response puts summary text on the line of the summary:
\* marker (the shape the prompt asks for, "2. Summary: <text>"), that text is
\* part of the returned summary, and the returned summary never contains
\* the heading line or the marker lines themselves.
C36_SameLineSummaryTextIsKept ==
    ResponseParsed =>
        /\ SameLineText # {} => last.parsed.summary = Join(SummaryText(1))
        /\ Positions(MarkerLines) # {} => last.parsed.summary # Join(last.response)

\* what the code returns for the shape the prompt asks for: the text on the
\* marker line is dropped, and with no line after it the whole response is
\* the summary
C36_SameLineSummaryTextIsDropped ==
    (ResponseParsed /\ SameLineText # {}) =>
        last.parsed.summary =
            IF SummarySection # {} THEN Join(Pick(1, SummarySection))
            ELSE Join(last.response)


\* a call served by the server: one of the two @mcp.tool() functions
ServedByServer(op) == op \in {"summarize_and_store", "fetch"}

FailedRead ==
    /\ last.op \in {"status", "get"}
    /\ last.args.db # "ok"

\* C38: A failed read on a store handle leaves the handle usable: no aborted
\* transaction is left open by the failed read, so the next store_memory,
\* delete_memory or read on the same handle can succeed.
C38_FailedReadLeavesHandleUsable ==
    FailedRead => connection.status # "aborted"

\* C38, what the code does: the except branch of a read returns the error
\* value without a rollback, so the failed statement leaves the transaction
\* aborted, in which every further statement fails (StatementOutcomes,
\* WriteOutcomes); a call on the handle whose statements ran never leaves
\* an aborted transaction.
C38_FailedReadAbortsTransaction ==
    /\ FailedRead => connection.status = "aborted"
    /\ (/\ last.op \in {"pipeline", "store", "delete", "status", "get"}
        /\ "db" \in {last.io[i] : i \in DOMAIN last.io}
        /\ last.args.db = "ok")
          => connection.status # "aborted"


\* C39: Retrieval is read-only with respect to Memories: a
\* FetchContextTool.run call, semantic or recent, whether it returns rows,
\* returns none, returns its error result or its constructor raises, leaves
\* every Memory row as it was (none added, removed or changed) and hands out
\* no new id.
C39_RetrievalIsReadOnly ==
    [][(last.op = "idle" /\ last'.op = "fetch")
          => (memories' = memories /\ nextId' = nextId)]_vars

\* C39 witness: a retrieval returned rows of a table that holds Memories
C39_Witness ==
    /\ last.op = "fetch"
    /\ last.search.ran \in {"semantic", "recent"}
    /\ last.search.found # <<>>
    /\ memories # {}
    /\ memories = last.before

====
